---- MODULE Spec2Model ----
(***************************************************************************)
(* Document structural annotation pipeline (docs_annotation).              *)
(*                                                                         *)
(* These specifications share this module:                                *)
(*   SpecPipeline  core/pipeline.py: Pipeline.execute over arbitrary       *)
(*                 stages (each stage call returns success, reports        *)
(*                 failure or raises);                                     *)
(*   SpecFeature   processors/feature_extractor.py: FeatureExtractor on    *)
(*                 arbitrary element inventories, with and without a       *)
(*                 classifier;                                             *)
(*   SpecStages    FeatureExtractor followed by LayoutClassifier           *)
(*                 (processors/layout_classifier.py), with any classifier; *)
(*   SpecService   service.py: the chain DocParser -> ElementDetector ->   *)
(*                 FeatureExtractor -> LayoutClassifier on PDF and text    *)
(*                 files;                                                  *)
(*   SpecDetector  processors/element_detector.py: ElementDetector on an   *)
(*                 arbitrary DocContent, with and without an OCR model;    *)
(*   SpecConfigured                                                        *)
(*                 the same chain on short files, with any configured      *)
(*                 long_table_threshold;                                   *)
(*   SpecChart, SpecOverlap, SpecDocx                                      *)
(*                 processors/doc_parser.py: one call of _detect_chart,    *)
(*                 of _bbox_overlap, and the page count of _parse_docx;    *)
(*   SpecParser    processors/doc_parser.py: one DocParser.process call    *)
(*                 on an arbitrary path;                                   *)
(*   SpecBatch     service.py, core/pipeline.py: annotate_batch and        *)
(*                 execute_batch over a list of paths;                     *)
(*   SpecRun       batch_annotate.py: BatchAnnotator.run over an input     *)
(*                 directory.                                              *)
(***************************************************************************)
EXTENDS Integers, Sequences, FiniteSets, TLC

VARIABLES
    \* ---- Pipeline (core/pipeline.py)
    steps,          \* Pipeline.steps: class names of the stages, in list order
    pc,             \* position of the caller / of execute's loop
    i,              \* execute: loop index (0-based, as enumerate gives it)
    input_data,     \* execute: the argument
    current_data,   \* execute: current_data
    all_errors,     \* execute: all_errors
    result,         \* execute: the ProcessResult returned
    calls,          \* history: every processor.process call of this execute
    \* ---- FeatureExtractor (processors/feature_extractor.py)
    fe_pc,          \* position inside FeatureExtractor.process
    page_count,     \* DocContent.page_count of the input
    elements,       \* ElementList of the input: [images, tables, formulas, charts]
    llm_configured, \* self.llm_model is set
    long_table_threshold,   \* self.long_table_threshold
    features,       \* the FeatureSet being built and returned
    rule_features,  \* history: the FeatureSet as the rule stage left it
    llm_outcome,    \* history: llm_model.extract "not called", "returned", "raised"
    llm_result,     \* history: the dict llm_model.extract returned
    fe_result,      \* the ProcessResult FeatureExtractor.process returned
    \* ---- LayoutClassifier (processors/layout_classifier.py)
    lc_pc,          \* position of LayoutClassifier.process
    file_type,      \* DocContent.file_type
    text,           \* DocContent.text: its length and its length stripped
    use_llm,        \* self.use_llm
    lc_llm_outcome, \* history: llm_model.classify "not called", "returned", "raised"
    lc_llm_label,   \* history: the label of the reply classify returned
    lc_result,      \* the ProcessResult LayoutClassifier.process returned
    \* ---- AnnotationService.annotate on a PDF (service.py, doc_parser.py)
    sv_pc,          \* position of annotate
    file_exists,    \* Path(input_data).exists()
    extension,      \* file_path.suffix.lower()
    pdf,            \* the pages of the file when it is a PDF
    text_file,      \* the content of the file when it is a text file
    backend,        \* the PDF library that can be imported
    metadata,       \* DocContent.metadata
    sv_result,      \* what annotate returned or raised
    \* ---- ElementDetector.process alone (processors/element_detector.py)
    det_pc,         \* position of ElementDetector.process
    raster_pages,   \* len(DocContent.pages): the page images of the input
    ocr_configured, \* self.ocr_model is not None
    ocr_page,       \* _process_with_ocr: page_idx of the loop
    ocr_calls,      \* history: the pages detect_elements was called on
    det_result,     \* the ProcessResult ElementDetector.process returned
    exec_result,    \* what Pipeline.execute makes of that result
    \* ---- one call of a helper of DocParser (processors/doc_parser.py)
    call_pc,        \* "idle", "called", "returned"
    call_args,      \* the arguments of the call
    call_result,    \* what the call returned
    \* ---- AnnotationService.annotate_batch (service.py, core/pipeline.py)
    batch_pc,       \* "idle", "loop", "returned"
    batch_inputs,   \* inputs: the file paths, each with what the file is
    batch_results,  \* the list execute_batch builds, one execute at a time
    annotations,    \* what annotate_batch returned
    sys_stderr,     \* sys.stderr: 0 the stream of the interpreter, k the
                    \* StringIO made while input k was parsed
    stderr_flows,   \* history: <<j, k>> when input k read the object that
                    \* the processing of input j left in sys.stderr
    \* ---- BatchAnnotator.run (batch_annotate.py)
    run_pc,         \* "idle", "start", "loop", "returned"
    input_dir,      \* the files rglob finds, in the order it yields them
    output_dir,     \* the annotation records on disk
    skip_existing,  \* self.skip_existing
    parsing_failed, \* the names listed in parsing_failed_files.json
    files,          \* run: what collect_files returned
    stats,          \* self.stats
    failed_files,   \* self.failed_files
    processed_log,  \* history: the process_file calls and how each ended
    failure_report  \* failed_files.json as run wrote it, None if not

pipeVars == <<steps, pc, i, input_data, current_data, all_errors, result, calls>>
featVars == <<fe_pc, page_count, elements, llm_configured,
              long_table_threshold, features, rule_features, llm_outcome,
              llm_result, fe_result>>
layoutVars == <<lc_pc, file_type, text, use_llm, lc_llm_outcome, lc_llm_label,
                lc_result>>

serviceVars ==
    <<sv_pc, file_exists, extension, pdf, text_file, backend, metadata,
      sv_result>>
ocrVars ==
    <<det_pc, raster_pages, ocr_configured, ocr_page, ocr_calls, det_result,
      exec_result>>
callVars == <<call_pc, call_args, call_result>>
batchVars ==
    <<batch_pc, batch_inputs, batch_results, annotations, sys_stderr,
      stderr_flows>>
runVars ==
    <<run_pc, input_dir, output_dir, skip_existing, parsing_failed, files,
      stats, failed_files, processed_log, failure_report>>
vars == <<pipeVars, featVars, layoutVars, serviceVars, ocrVars, callVars, batchVars, runVars>>
notPipe == <<featVars, layoutVars, serviceVars, ocrVars, callVars, batchVars, runVars>>
notFeat == <<pipeVars, layoutVars, serviceVars, ocrVars, callVars, batchVars, runVars>>
notCall ==
    <<pipeVars, featVars, layoutVars, serviceVars, ocrVars, batchVars, runVars>>
notBatch ==
    <<pipeVars, featVars, layoutVars, serviceVars, ocrVars, callVars, runVars>>
notRun ==
    <<pipeVars, featVars, layoutVars, serviceVars, ocrVars, callVars,
      batchVars>>
\* what LayoutClassifier.process leaves alone
notLayout ==
    <<pipeVars, featVars, file_type, text, use_llm, serviceVars, ocrVars,
      callVars, batchVars, runVars>>

\* ---------------------------------------------------------------- bounds
MaxSteps == 3       \* longest stage list
MaxData == 1        \* stage inputs and outputs are 0..MaxData

Data == 0 .. MaxData
ClassNames == {"StageA", "StageB"}
\* error lists a failing stage may report (ProcessResult.errors defaults to [])
StageErrors == {<<>>, <<"stage error">>}
ExcMessages == {"boom"}

\* ----------------------------------------------------- FeatureExtractor
MaxPages == 3       \* page_count is 0..MaxPages, table pages 0..MaxPages-1
MaxTables == 3      \* most table elements in an inventory
MaxThreshold == 3   \* long_table_threshold is 1..MaxThreshold

\* Row counts a table element may carry in extra["rows"] (0: none recorded).
RowChoices == {0, 10, 50, 99, 150}
PageIdx == 0 .. (MaxPages - 1)
\* ElementInfo: its page and the row count extra["rows"] (0 when absent).
ElementInfo(page, rows) == [page |-> page, rows |-> rows]
TableElems == [page : PageIdx, rows : RowChoices]

\* Optional[bool] values of FeatureSet.table_dominant / reading_order_sensitive
None == "None"
OptBool == {None, "True", "False"}
Opt(b) == IF b THEN "True" ELSE "False"

Max2(a, b) == IF a >= b THEN a ELSE b

\* FeatureSet(): the dataclass defaults
FeatureSet ==
    [table_dominant |-> None, long_table |-> FALSE, cross_page_table |-> FALSE,
     cross_page_chart |-> FALSE, reading_order_sensitive |-> None]

rows_per_page == 50
\* self.table_dominant_ratio = 0.6, kept as the fraction 6/10
table_dominant_ratio_num == 6
table_dominant_ratio_den == 10
check_cross_page == TRUE

\* x / y >= table_dominant_ratio, with "0 if total_pages == 0"
RatioReached(x, y) ==
    y > 0 /\ x * table_dominant_ratio_den >= table_dominant_ratio_num * y

\* table_pages: the set of pages of the table elements
table_pages(tables) == {tables[k].page : k \in 1 .. Len(tables)}

RECURSIVE max_table_rows(_)
max_table_rows(tables) ==
    IF tables = <<>> THEN 0
    ELSE Max2(max_table_rows(Tail(tables)), Head(tables).rows)

RECURSIVE total_table_rows(_)
total_table_rows(tables) ==
    IF tables = <<>> THEN 0
    ELSE Head(tables).rows + total_table_rows(Tail(tables))

\* max(1, rows // rows_per_page) if rows > 0 else 0
estimated_pages(rows) ==
    IF rows > 0 THEN Max2(1, rows \div rows_per_page) ELSE 0

\* sorted(pages)
RECURSIVE sorted(_)
sorted(S) ==
    IF S = {} THEN <<>>
    ELSE LET m == CHOOSE x \in S : \A y \in S : x <= y
         IN <<m>> \o sorted(S \ {m})

\* for i in range(len(sorted_pages) - 1): if sorted_pages[i+1] - sorted_pages[i] == 1
has_adjacent(sorted_pages) ==
    \E k \in 1 .. (Len(sorted_pages) - 1) :
        sorted_pages[k + 1] - sorted_pages[k] = 1

\* The loop of lines 180-187 from index k on: max_consecutive at its end.
RECURSIVE consecutive_loop(_, _, _, _)
consecutive_loop(sorted_pages, k, current_consecutive, max_consecutive) ==
    IF k > Len(sorted_pages) - 1 THEN max_consecutive
    ELSE IF sorted_pages[k + 1] - sorted_pages[k] = 1
         THEN consecutive_loop(sorted_pages, k + 1, current_consecutive + 1,
                               Max2(max_consecutive, current_consecutive + 1))
         ELSE consecutive_loop(sorted_pages, k + 1, 1, max_consecutive)

max_consecutive(sorted_pages) == consecutive_loop(sorted_pages, 1, 1, 1)

\* Mutant: only tables on adjacent pages count as cross-page.
has_cross_page_adjacent_only(tables) ==
    /\ check_cross_page
    /\ Cardinality(table_pages(tables)) > 1
    /\ has_adjacent(sorted(table_pages(tables)))

\* Mutant: a table of exactly rows_per_page rows counts as cross-page.
has_cross_page_at_limit(tables) ==
    /\ check_cross_page
    /\ \/ /\ Cardinality(table_pages(tables)) > 1
          /\ has_adjacent(sorted(table_pages(tables)))
       \/ max_table_rows(tables) >= rows_per_page

\* 1. has_cross_page
has_cross_page(tables) ==
    /\ check_cross_page
    /\ \/ /\ Cardinality(table_pages(tables)) > 1
          /\ has_adjacent(sorted(table_pages(tables)))
       \/ max_table_rows(tables) > rows_per_page

\* Mutant: the threshold has to be exceeded, not reached.
is_long_table_exceeds(tables, threshold) ==
    /\ check_cross_page
    /\ \/ /\ Cardinality(table_pages(tables)) > 1
          /\ max_consecutive(sorted(table_pages(tables))) > threshold
       \/ estimated_pages(max_table_rows(tables)) > threshold

\* 2. long_table
is_long_table(tables, threshold) ==
    /\ check_cross_page
    /\ \/ /\ Cardinality(table_pages(tables)) > 1
          /\ max_consecutive(sorted(table_pages(tables))) >= threshold
       \/ estimated_pages(max_table_rows(tables)) >= threshold

\* Mutant: the last branch (table count >= page count) is missing.
is_dominant_without_count(tables, total_pages) ==
    \/ RatioReached(Cardinality(table_pages(tables)), total_pages)
    \/ RatioReached(estimated_pages(total_table_rows(tables)), total_pages)
    \/ (Cardinality(table_pages(tables)) = total_pages /\ total_pages > 0)

\* 3. is_dominant: the if/elif chain of lines 214-226
is_dominant(tables, total_pages) ==
    \/ RatioReached(Cardinality(table_pages(tables)), total_pages)
    \/ RatioReached(estimated_pages(total_table_rows(tables)), total_pages)
    \/ (Cardinality(table_pages(tables)) = total_pages /\ total_pages > 0)
    \/ (total_pages > 0 /\ Len(tables) >= total_pages)

\* _extract_table_features
extract_table_features(total_pages, elems, threshold, f) ==
    IF elems.tables = <<>> THEN f
    ELSE [f EXCEPT
            !.cross_page_table = has_cross_page(elems.tables),
            !.long_table = is_long_table(elems.tables, threshold),
            !.table_dominant = Opt(is_dominant(elems.tables, total_pages))]

\* _extract_chart_features
extract_chart_features(elems, f) ==
    IF elems.charts = <<>> \/ ~check_cross_page THEN f
    ELSE LET chart_pages == {elems.charts[k].page : k \in 1 .. Len(elems.charts)}
         IN IF Len(elems.charts) > 1 /\ has_adjacent(sorted(chart_pages))
            THEN [f EXCEPT !.cross_page_chart = TRUE]
            ELSE f

\* Page-ordered inventories of at most MaxTables tables (the order of the
\* elements is not read by the extractor: set, max and sum only).
ElemLeq(a, b) == a.page < b.page \/ (a.page = b.page /\ a.rows <= b.rows)
TableLists ==
    UNION {{s \in [1 .. n -> TableElems] :
                \A k \in 1 .. (n - 1) : ElemLeq(s[k], s[k + 1])} : n \in 0 .. MaxTables}
\* Chart pages of the inventory: no chart, or two charts on adjacent pages.
ChartLists == {<<>>, <<ElementInfo(0, 0), ElementInfo(1, 0)>>}

\* ElementList(): four empty collections
ElementList == [images |-> <<>>, tables |-> <<>>, formulas |-> <<>>, charts |-> <<>>]

\* What llm_model.extract may return for the schema of lines 302-305.
\* (reading_order_sensitive: absent, or the False that MockLLM.extract gives)
ExtractResults ==
    [table_dominant : OptBool, reading_order_sensitive : {None, "False"}]
NoExtract == [table_dominant |-> None, reading_order_sensitive |-> None]

\* No ProcessResult yet.
NoStageResult == [success |-> FALSE, returned |-> FALSE]

\* ProcessResult(success=True, data=(doc_content, elements, features),
\*               metadata=features.to_dict()): the FeatureSet it carries
FeatureResult(f) == [success |-> TRUE, returned |-> TRUE, features |-> f]

\* No FeatureExtractor.process call is in progress.
FeatureIdle ==
    /\ fe_pc = "idle"
    /\ page_count = 0
    /\ elements = ElementList
    /\ llm_configured = FALSE
    /\ long_table_threshold = 3
    /\ features = FeatureSet
    /\ rule_features = FeatureSet
    /\ llm_outcome = "not called"
    /\ llm_result = NoExtract
    /\ fe_result = NoStageResult

\* FeatureExtractor.__init__ and the entry of process: features = FeatureSet()
FeatureInit ==
    /\ fe_pc = "start"
    /\ page_count \in 0 .. MaxPages
    /\ elements \in [images : {<<>>}, tables : TableLists, formulas : {<<>>},
                     charts : ChartLists]
    /\ llm_configured \in BOOLEAN
    /\ long_table_threshold \in 1 .. MaxThreshold
    /\ features = FeatureSet
    /\ rule_features = FeatureSet
    /\ llm_outcome = "not called"
    /\ llm_result = NoExtract
    /\ fe_result = NoStageResult

\* Mutant: the rule stage lifts the page count of the DocContent to 1.
RuleStageFixesPageCount ==
    /\ fe_pc = "start"
    /\ features' = extract_chart_features(elements,
                      extract_table_features(page_count, elements,
                                             long_table_threshold, features))
    /\ rule_features' = features'
    /\ fe_pc' = "rules"
    /\ page_count' = Max2(1, page_count)
    /\ UNCHANGED <<elements, llm_configured, long_table_threshold,
                   llm_outcome, llm_result, fe_result>>
    /\ UNCHANGED notFeat

\* process, steps 1 and 2: the rules on tables, then on charts
RuleStage ==
    /\ fe_pc = "start"
    /\ features' = extract_chart_features(elements,
                      extract_table_features(page_count, elements,
                                             long_table_threshold, features))
    /\ rule_features' = features'
    /\ fe_pc' = "rules"
    /\ UNCHANGED <<page_count, elements, llm_configured, long_table_threshold,
                   llm_outcome, llm_result, fe_result>>
    /\ UNCHANGED notFeat

\* Mutant: the classifier's table_dominant is applied whatever the rules said.
apply_llm_result_overwrites(f, r) ==
    LET f1 == IF r.table_dominant # None
              THEN [f EXCEPT !.table_dominant = r.table_dominant] ELSE f
    IN IF r.reading_order_sensitive # None
       THEN [f1 EXCEPT !.reading_order_sensitive = r.reading_order_sensitive]
       ELSE f1

\* The update of lines 312-316 for an extract result r
apply_llm_result(f, r) ==
    LET f1 == IF f.table_dominant = None /\ r.table_dominant # None
              THEN [f EXCEPT !.table_dominant = r.table_dominant] ELSE f
    IN IF r.reading_order_sensitive # None
       THEN [f1 EXCEPT !.reading_order_sensitive = r.reading_order_sensitive]
       ELSE f1

\* process, step 3 with a classifier: _analyze_with_llm, extract returned r
AnalyzeWithLLM(r) ==
    /\ fe_pc = "rules"
    /\ llm_configured
    /\ features' = apply_llm_result(features, r)
    /\ llm_outcome' = "returned"
    /\ llm_result' = r
    /\ fe_result' = FeatureResult(features')
    /\ fe_pc' = "done"
    /\ UNCHANGED <<page_count, elements, llm_configured, long_table_threshold,
                   rule_features>>
    /\ UNCHANGED notFeat

\* process, step 3 with a classifier: extract raised, the except keeps features
AnalyzeWithLLMRaises ==
    /\ fe_pc = "rules"
    /\ llm_configured
    /\ llm_outcome' = "raised"
    /\ fe_result' = FeatureResult(features)
    /\ fe_pc' = "done"
    /\ UNCHANGED <<page_count, elements, llm_configured, long_table_threshold,
                   features, rule_features, llm_result>>
    /\ UNCHANGED notFeat

\* process, step 3 skipped: no classifier
NoLLM ==
    /\ fe_pc = "rules"
    /\ ~llm_configured
    /\ fe_result' = FeatureResult(features)
    /\ fe_pc' = "done"
    /\ UNCHANGED <<page_count, elements, llm_configured, long_table_threshold,
                   features, rule_features, llm_outcome, llm_result>>
    /\ UNCHANGED notFeat

NextFeature ==
    \/ RuleStage
    \/ \E r \in ExtractResults : AnalyzeWithLLM(r)
    \/ AnalyzeWithLLMRaises
    \/ NoLLM


\* ----------------------------------------------------- LayoutClassifier
\* FileType values (core/schema.py); "txt" stands for every non-PDF type.
FileTypes == {"pdf", "txt"}
LayoutTypes == {"single", "double", "mixed"}

\* DocContent.text by its length and the length of text.strip():
\* empty, whitespace only, a short text, a text of more than 100 characters.
TextChoices ==
    {[len |-> 0, stripped |-> 0], [len |-> 4, stripped |-> 0],
     [len |-> 50, stripped |-> 50], [len |-> 200, stripped |-> 200]}
substantial_text_len == 100

\* What llm_model.classify may put under "label": one of the options, a
\* label outside them, or no "label" key at all.
NoLabel == "<no label>"
LabelReplies == LayoutTypes \cup {"landscape", NoLabel}

\* Mutant: the text counts as a single-page feature only when it is not blank.
classify_by_rules_stripped(doc_text, elems, f) ==
    LET has_double_page_features ==
            f.long_table \/ f.cross_page_table \/ f.cross_page_chart
        has_single_page_features ==
            Len(elems.images) > 0 \/ doc_text.stripped > 0
    IN IF has_double_page_features /\ has_single_page_features THEN "mixed"
       ELSE IF has_double_page_features THEN "double"
       ELSE "single"

\* _classify_by_rules
classify_by_rules(doc_text, elems, f) ==
    LET has_double_page_features ==
            f.long_table \/ f.cross_page_table \/ f.cross_page_chart
        has_single_page_features == Len(elems.images) > 0 \/ doc_text.len > 0
    IN IF has_double_page_features /\ has_single_page_features THEN "mixed"
       ELSE IF has_double_page_features THEN "double"
       ELSE "single"

\* Mutant: a label outside the enum yields "single" instead of the rules.
layout_of_reply_defaulting(label, doc_text, elems, f) ==
    IF label \in LayoutTypes THEN label ELSE "single"

\* _classify_with_llm when classify returned: LayoutType(result.get("label",
\* "single")); a value outside the enum raises ValueError inside the try,
\* and the except branch classifies by rules.
layout_of_reply(label, doc_text, elems, f) ==
    IF label = NoLabel THEN "single"
    ELSE IF label \in LayoutTypes THEN label
    ELSE classify_by_rules(doc_text, elems, f)

\* Mutant: the nested profiles are attached whatever the file type is.
build_annotation_any_type(ft, doc_text, elems, f, layout) ==
    LET has_image == Len(elems.images) > 0
    IN [file_type |-> ft,
        layout |-> layout,
        has_image |-> has_image,
        has_table |-> Len(elems.tables) > 0,
        has_image_table |-> FALSE,
        has_complex_table |-> FALSE,
        has_formula |-> Len(elems.formulas) > 0,
        has_chart |-> Len(elems.charts) > 0,
        image_text_mixed |->
            (has_image /\ doc_text.stripped > substantial_text_len),
        reading_order_sensitive |-> f.reading_order_sensitive,
        table_profile |->
            IF elems.tables # <<>>
            THEN <<[long_table |-> f.long_table,
                    cross_page_table |-> f.cross_page_table,
                    table_dominant |-> f.table_dominant]>>
            ELSE <<>>,
        chart_profile |->
            IF elems.charts # <<>>
            THEN <<[cross_page_chart |-> f.cross_page_chart]>>
            ELSE <<>>]

\* process, step 2: the DocumentAnnotation (absent nested profiles are <<>>)
build_annotation(ft, doc_text, elems, f, layout) ==
    LET is_pdf == ft = "pdf"
        has_image == Len(elems.images) > 0
    IN [file_type |-> ft,
        layout |-> layout,
        has_image |-> has_image,
        has_table |-> Len(elems.tables) > 0,
        has_image_table |-> FALSE,
        has_complex_table |-> FALSE,
        has_formula |-> Len(elems.formulas) > 0,
        has_chart |-> Len(elems.charts) > 0,
        image_text_mixed |->
            (has_image /\ doc_text.stripped > substantial_text_len),
        reading_order_sensitive |->
            IF is_pdf THEN f.reading_order_sensitive ELSE None,
        table_profile |->
            IF is_pdf /\ elems.tables # <<>>
            THEN <<[long_table |-> f.long_table,
                    cross_page_table |-> f.cross_page_table,
                    table_dominant |-> f.table_dominant]>>
            ELSE <<>>,
        chart_profile |->
            IF is_pdf /\ elems.charts # <<>>
            THEN <<[cross_page_chart |-> f.cross_page_chart]>>
            ELSE <<>>]

\* ProcessResult(success=True, data=annotation, metadata={layout_type, is_pdf})
LayoutResult(annotation) ==
    [success |-> TRUE, returned |-> TRUE, data |-> annotation,
     metadata |-> [layout_type |-> annotation.layout,
                   is_pdf |-> annotation.file_type = "pdf"]]

\* No LayoutClassifier.process call is made.
LayoutIdle ==
    /\ lc_pc = "idle"
    /\ file_type = "pdf"
    /\ text = [len |-> 0, stripped |-> 0]
    /\ use_llm = TRUE
    /\ lc_llm_outcome = "not called" /\ lc_llm_label = NoLabel
    /\ lc_result = NoStageResult

\* LayoutClassifier.__init__; process is called once the FeatureExtractor
\* has returned.
LayoutInit ==
    /\ lc_pc = "start"
    /\ file_type \in FileTypes
    /\ text \in TextChoices
    /\ use_llm \in BOOLEAN
    /\ lc_llm_outcome = "not called" /\ lc_llm_label = NoLabel
    /\ lc_result = NoStageResult

\* Mutant: a non-PDF document is classified by the rules.
ClassifyNonPdfByRules ==
    /\ fe_pc = "done" /\ lc_pc = "start"
    /\ file_type # "pdf"
    /\ lc_result' = LayoutResult(
            build_annotation(file_type, text, elements, features,
                             classify_by_rules(text, elements, features)))
    /\ lc_pc' = "done"
    /\ UNCHANGED <<lc_llm_outcome, lc_llm_label>>
    /\ UNCHANGED notLayout

\* process on a non-PDF document: layout = LayoutType.SINGLE
ClassifyNonPdf ==
    /\ fe_pc = "done" /\ lc_pc = "start"
    /\ file_type # "pdf"
    /\ lc_result' = LayoutResult(
            build_annotation(file_type, text, elements, features, "single"))
    /\ lc_pc' = "done"
    /\ UNCHANGED <<lc_llm_outcome, lc_llm_label>>
    /\ UNCHANGED notLayout

\* process on a PDF without a usable classifier: _classify_by_rules
ClassifyByRules ==
    /\ fe_pc = "done" /\ lc_pc = "start"
    /\ file_type = "pdf"
    /\ ~(use_llm /\ llm_configured)
    /\ lc_result' = LayoutResult(
            build_annotation(file_type, text, elements, features,
                             classify_by_rules(text, elements, features)))
    /\ lc_pc' = "done"
    /\ UNCHANGED <<lc_llm_outcome, lc_llm_label>>
    /\ UNCHANGED notLayout

\* process on a PDF with a classifier: _classify_with_llm, classify returned
ClassifyWithLLM(label) ==
    /\ fe_pc = "done" /\ lc_pc = "start"
    /\ file_type = "pdf"
    /\ use_llm /\ llm_configured
    /\ lc_llm_outcome' = "returned"
    /\ lc_llm_label' = label
    /\ lc_result' = LayoutResult(
            build_annotation(file_type, text, elements, features,
                             layout_of_reply(label, text, elements, features)))
    /\ lc_pc' = "done"
    /\ UNCHANGED notLayout

\* Mutant: a failed classify call yields the configured fallback_rule
\* ("single") instead of the rule-based layout.
ClassifyWithLLMRaisesFallback ==
    /\ fe_pc = "done" /\ lc_pc = "start"
    /\ file_type = "pdf"
    /\ use_llm /\ llm_configured
    /\ lc_llm_outcome' = "raised"
    /\ UNCHANGED lc_llm_label
    /\ lc_result' = LayoutResult(
            build_annotation(file_type, text, elements, features, "single"))
    /\ lc_pc' = "done"
    /\ UNCHANGED notLayout

\* process on a PDF with a classifier: classify raised, the except branch
\* returns _classify_by_rules
ClassifyWithLLMRaises ==
    /\ fe_pc = "done" /\ lc_pc = "start"
    /\ file_type = "pdf"
    /\ use_llm /\ llm_configured
    /\ lc_llm_outcome' = "raised"
    /\ UNCHANGED lc_llm_label
    /\ lc_result' = LayoutResult(
            build_annotation(file_type, text, elements, features,
                             classify_by_rules(text, elements, features)))
    /\ lc_pc' = "done"
    /\ UNCHANGED notLayout

NextLayout ==
    \/ ClassifyNonPdf
    \/ ClassifyByRules
    \/ \E label \in LabelReplies : ClassifyWithLLM(label)
    \/ ClassifyWithLLMRaises

\* ----------------------------------- AnnotationService.annotate on a PDF
MaxPdfPages == 5

\* A page as pdfplumber reports it: its tables (rows, cols), its images that
\* no table overlaps (each by its area in hundredths of the page area),
\* lines, rects and curves, and the length of its text (taken without outer
\* whitespace).
Page(tables, images, curves, text_len) ==
    [tables |-> tables, images |-> images, lines |-> 0, rects |-> 0,
     curves |-> curves, text_len |-> text_len]
BlankPage == Page(<<>>, <<>>, 0, 0)
TextPage == Page(<<>>, <<>>, 0, 150)
TablePage == Page(<<[rows |-> 60, cols |-> 4]>>, <<>>, 0, 150)
ImagePage == Page(<<>>, <<10>>, 0, 0)
ScannedPage == Page(<<>>, <<80>>, 0, 0)
CurvePage == Page(<<>>, <<>>, 6, 0)
PageKinds ==
    {BlankPage, TextPage, TablePage, ImagePage, ScannedPage, CurvePage}
Pdfs == UNION {[1 .. n -> PageKinds] : n \in 0 .. MaxPdfPages}
Backends == {"pdfplumber", "PyPDF2", "none"}
Extensions == {".pdf", ".txt"}

\* A text file by the length of its content, the length once stripped and
\* the number of "\n" in it: empty, a few lines, some hundred lines.
TxtFiles ==
    {[len |-> 0, stripped |-> 0, newlines |-> 0],
     [len |-> 200, stripped |-> 200, newlines |-> 3],
     [len |-> 6000, stripped |-> 6000, newlines |-> 120]}
NoTxt == [len |-> 0, stripped |-> 0, newlines |-> 0]
lines_per_page == 50

RECURSIVE SumOver(_, _, _, _)
\* The tallies of _parse_pdf's page loop, over pages lo .. hi
SumOver(pages, lo, hi, field) ==
    IF lo > hi THEN 0
    ELSE (CASE field = "tables" -> Len(pages[lo].tables)
            [] field = "images" -> Len(pages[lo].images)
            [] field = "lines" -> pages[lo].lines
            [] field = "rects" -> pages[lo].rects
            [] field = "curves" -> pages[lo].curves
            [] field = "text" -> pages[lo].text_len)
         + SumOver(pages, lo + 1, hi, field)
Total(pages, field) == SumOver(pages, 1, Len(pages), field)

\* "\n".join(text_parts): its length, and its length once stripped
joined_text(pages) ==
    LET n == Len(pages)
        filled == {k \in 1 .. n : pages[k].text_len > 0}
        first == CHOOSE k \in filled : \A j \in filled : k <= j
        last == CHOOSE k \in filled : \A j \in filled : k >= j
    IN [len |-> Total(pages, "text") + (IF n > 0 THEN n - 1 ELSE 0),
        stripped |-> IF filled = {} THEN 0
                     ELSE SumOver(pages, first, last, "text") + (last - first)]

\* Mutant: every rectangle counts as an extra one, whatever the tables need.
chart_all_rects(total_lines, total_rects, total_curves, total_tables, pages) ==
    \/ total_curves > 5
    \/ (pages > 0 /\ total_rects > 5 * pages)
    \/ (total_tables = 0 /\ total_rects > 10)

\* _detect_chart (extra_rects / page_count > 5 kept as a product)
detect_chart(total_lines, total_rects, total_curves, total_tables, pages) ==
    LET extra_rects == total_rects - total_tables * 10
    IN \/ total_curves > 5
       \/ (pages > 0 /\ extra_rects > 5 * pages)
       \/ (total_tables = 0 /\ total_rects > 10)

\* _detect_complex_table over tables_detail
detect_complex_table(pages) ==
    \E k \in 1 .. Len(pages) : \E t \in 1 .. Len(pages[k].tables) :
        LET tbl == pages[k].tables[t]
        IN tbl.cols > 10 \/ tbl.rows > 100 \/ (tbl.cols >= 7 /\ tbl.rows > 20)

\* img_area / page_area > 0.5, for an area in hundredths of the page area
covers_most_of_page(img_area) == 2 * img_area > 100

\* the pages without a structured table that hold an image covering more
\* than half of the page
possible_scanned_table_pages(pages) ==
    {k - 1 : k \in {j \in 1 .. Len(pages) :
        /\ pages[j].tables = <<>>
        /\ \E n \in 1 .. Len(pages[j].images) :
              covers_most_of_page(pages[j].images[n])}}

\* tables_detail of _parse_pdf: page and rows of every table, in page order
RECURSIVE tables_detail_upto(_, _)
tables_detail_upto(pages, n) ==
    IF n = 0 THEN <<>>
    ELSE tables_detail_upto(pages, n - 1) \o
         [k \in 1 .. Len(pages[n].tables) |->
             [page |-> n - 1, rows |-> pages[n].tables[k].rows]]

\* metadata of the DocContent _parse_pdf builds with pdfplumber
plumber_metadata(pages) ==
    LET total_tables == Total(pages, "tables")
        total_images == Total(pages, "images")
    IN [has_image |-> total_images > 0,
        has_table |-> total_tables > 0,
        has_image_table |-> possible_scanned_table_pages(pages) # {},
        has_complex_table |-> detect_complex_table(pages),
        has_formula |-> FALSE,
        has_chart |-> detect_chart(Total(pages, "lines"), Total(pages, "rects"),
                                   Total(pages, "curves"), total_tables,
                                   Len(pages)),
        image_count |-> total_images,
        table_count |-> total_tables,
        table_pages |-> {k - 1 : k \in {j \in 1 .. Len(pages) :
                                            pages[j].tables # <<>>}},
        tables_detail |-> tables_detail_upto(pages, Len(pages))]

\* metadata of the DocContent _parse_pdf builds with PyPDF2
pypdf2_metadata ==
    [has_image |-> FALSE, has_table |-> FALSE, has_formula |-> FALSE,
     has_chart |-> FALSE]

\* DocContent.metadata default: {}
NoMetadata == <<>>

\* metadata.get(key, default)
Get(md, key, default) == IF key \in DOMAIN md THEN md[key] ELSE default

\* ElementDetector.process: has_metadata_info
has_metadata_info(md) ==
    \E key \in {"has_image", "has_table", "has_chart"} : key \in DOMAIN md

Min2(a, b) == IF a <= b THEN a ELSE b

\* The placeholder element of _process_from_metadata: bbox [0, 0, 0, 0],
\* page 0, extra = {"source": "metadata"}; extra has no "rows" entry, which
\* the extractor reads as 0 rows.
Placeholder ==
    [page |-> 0, rows |-> 0, bbox |-> <<0, 0, 0, 0>>, source |-> "metadata"]

\* [Placeholder for i in range(min(count, 1))]
placeholders(count) == IF Min2(count, 1) >= 1 THEN <<Placeholder>> ELSE <<>>

\* Mutant: the tables are rebuilt from tables_detail, page and rows kept.
process_from_metadata_detailed(md) ==
    LET detail == Get(md, "tables_detail", <<>>)
    IN [images |-> IF Get(md, "has_image", FALSE)
                   THEN placeholders(Get(md, "image_count", 1)) ELSE <<>>,
        tables |-> [k \in 1 .. Len(detail) |->
                       [Placeholder EXCEPT !.page = detail[k].page,
                                           !.rows = detail[k].rows]],
        formulas |-> IF Get(md, "has_formula", FALSE)
                     THEN <<Placeholder>> ELSE <<>>,
        charts |-> IF Get(md, "has_chart", FALSE)
                   THEN placeholders(Get(md, "chart_count", 1)) ELSE <<>>]

\* _process_from_metadata: the ElementList it fills
process_from_metadata(md) ==
    [images |-> IF Get(md, "has_image", FALSE)
                THEN placeholders(Get(md, "image_count", 1)) ELSE <<>>,
     tables |-> IF Get(md, "has_table", FALSE)
                THEN placeholders(Get(md, "table_count", 1)) ELSE <<>>,
     formulas |-> IF Get(md, "has_formula", FALSE) THEN <<Placeholder>> ELSE <<>>,
     charts |-> IF Get(md, "has_chart", FALSE)
                THEN placeholders(Get(md, "chart_count", 1)) ELSE <<>>]

NoAnnotation == [outcome |-> "none"]

\* No annotate call is made.
ServiceIdle ==
    /\ sv_pc = "idle"
    /\ file_exists = FALSE
    /\ extension = ".pdf"
    /\ pdf = <<>>
    /\ text_file = NoTxt
    /\ backend = "none"
    /\ metadata = NoMetadata
    /\ sv_result = NoAnnotation

\* AnnotationService(llm_model=...) with the default configuration, and
\* annotate called on the path of a PDF or of a text file: _build_pipeline,
\* then execute enters DocParser.process.
ServiceStart(pdfs, thresholds) ==
    /\ sv_pc = "parse"
    /\ file_exists \in BOOLEAN
    /\ extension \in Extensions
    /\ pdf \in pdfs
    /\ text_file \in TxtFiles
    /\ (file_exists /\ extension = ".pdf") \/ pdf = <<>>
    /\ (file_exists /\ extension = ".txt") \/ text_file = NoTxt
    /\ backend \in Backends
    /\ metadata = NoMetadata
    /\ sv_result = NoAnnotation
    /\ fe_pc = "waiting"
    /\ page_count = 0
    /\ elements = ElementList
    /\ llm_configured \in BOOLEAN
    /\ long_table_threshold \in thresholds
    /\ features = FeatureSet
    /\ rule_features = FeatureSet
    /\ llm_outcome = "not called"
    /\ llm_result = NoExtract
    /\ fe_result = NoStageResult
    /\ lc_pc = "start"
    /\ file_type = "pdf"
    /\ text = [len |-> 0, stripped |-> 0]
    /\ use_llm = TRUE
    /\ lc_llm_outcome = "not called" /\ lc_llm_label = NoLabel
    /\ lc_result = NoStageResult

\* The default configuration: long_table_threshold = 3
ServiceInit == ServiceStart(Pdfs, {3})

\* AnnotationService(config=...) with any long_table_threshold >= 1, called
\* on short files.
MaxShortPdf == 3
ShortPdfs == UNION {[1 .. n -> PageKinds] : n \in 0 .. MaxShortPdf}
ConfiguredServiceInit == ServiceStart(ShortPdfs, 1 .. MaxThreshold)

notService ==
    <<pipeVars, ocrVars, callVars, batchVars, runVars, layoutVars, elements, llm_configured, long_table_threshold,
      features, rule_features, llm_outcome, llm_result, fe_result,
      file_exists, extension, pdf, text_file, backend>>

\* DocParser.process: the file does not exist; execute stops at step 0 and
\* annotate raises ValueError
ParseMissingFile ==
    /\ sv_pc = "parse"
    /\ ~file_exists
    /\ sv_result' = [outcome |-> "raised", failed_at_step |-> 0]
    /\ sv_pc' = "failed"
    /\ UNCHANGED <<fe_pc, page_count, metadata>>
    /\ UNCHANGED notService

\* DocParser.process -> _parse_pdf with pdfplumber
ParsePdfPlumber ==
    /\ sv_pc = "parse"
    /\ file_exists
    /\ extension = ".pdf"
    /\ backend = "pdfplumber"
    /\ page_count' = Len(pdf)
    /\ metadata' = plumber_metadata(pdf)
    /\ sv_pc' = "detect"
    /\ file_type' = "pdf"
    /\ text' = joined_text(pdf)
    /\ UNCHANGED <<fe_pc, sv_result, file_exists, extension, pdf, text_file,
                   backend>>
    /\ UNCHANGED <<pipeVars, ocrVars, callVars, batchVars, runVars, elements, llm_configured,
                   long_table_threshold,
                   features, rule_features, llm_outcome, llm_result, fe_result,
                   lc_pc, use_llm, lc_llm_outcome, lc_llm_label,
                   lc_result>>

\* DocParser.process -> _parse_pdf falling back to PyPDF2
ParsePdfPyPDF2 ==
    /\ sv_pc = "parse"
    /\ file_exists
    /\ extension = ".pdf"
    /\ backend = "PyPDF2"
    /\ page_count' = Len(pdf)
    /\ metadata' = pypdf2_metadata
    /\ sv_pc' = "detect"
    /\ file_type' = "pdf"
    /\ text' = joined_text(pdf)
    /\ UNCHANGED <<fe_pc, sv_result, file_exists, extension, pdf, text_file,
                   backend>>
    /\ UNCHANGED <<pipeVars, ocrVars, callVars, batchVars, runVars, elements, llm_configured,
                   long_table_threshold,
                   features, rule_features, llm_outcome, llm_result, fe_result,
                   lc_pc, use_llm, lc_llm_outcome, lc_llm_label,
                   lc_result>>

\* DocParser.process -> _parse_pdf raises ImportError, caught by process;
\* execute stops at step 0 and annotate raises ValueError
ParsePdfNoBackend ==
    /\ sv_pc = "parse"
    /\ file_exists
    /\ extension = ".pdf"
    /\ backend = "none"
    /\ sv_result' = [outcome |-> "raised", failed_at_step |-> 0]
    /\ sv_pc' = "failed"
    /\ UNCHANGED <<fe_pc, page_count, metadata>>
    /\ UNCHANGED notService

\* DocParser.process -> _parse_text
ParseText ==
    /\ sv_pc = "parse"
    /\ file_exists
    /\ extension = ".txt"
    /\ page_count' = Max2(1, (text_file.newlines + 1) \div lines_per_page)
    /\ metadata' = NoMetadata
    /\ sv_pc' = "detect"
    /\ file_type' = "txt"
    /\ text' = [len |-> text_file.len, stripped |-> text_file.stripped]
    /\ UNCHANGED <<fe_pc, sv_result, file_exists, extension, pdf, text_file,
                   backend>>
    /\ UNCHANGED <<pipeVars, ocrVars, callVars, batchVars, runVars, elements, llm_configured,
                   long_table_threshold,
                   features, rule_features, llm_outcome, llm_result, fe_result,
                   lc_pc, use_llm, lc_llm_outcome, lc_llm_label,
                   lc_result>>

\* ElementDetector.process on the parsed document: the metadata carries
\* has_image / has_table / has_chart, so _process_from_metadata runs; its
\* result is handed to FeatureExtractor.process
DetectFromMetadata ==
    /\ sv_pc = "detect"
    /\ has_metadata_info(metadata)
    /\ elements' = process_from_metadata(metadata)
    /\ sv_pc' = "extract"
    /\ fe_pc' = "start"
    /\ UNCHANGED <<page_count, llm_configured, long_table_threshold, features,
                   rule_features, llm_outcome, llm_result, fe_result>>
    /\ UNCHANGED <<pipeVars, ocrVars, callVars, batchVars, runVars, layoutVars, file_exists,
                   extension, pdf, text_file,
                   backend, metadata, sv_result>>

\* ElementDetector.process on a parsed document without element metadata
\* that is not a PDF: the empty ElementList, handed to
\* FeatureExtractor.process
DetectNothing ==
    /\ sv_pc = "detect"
    /\ ~has_metadata_info(metadata)
    /\ file_type # "pdf"
    /\ elements' = ElementList
    /\ sv_pc' = "extract"
    /\ fe_pc' = "start"
    /\ UNCHANGED <<page_count, llm_configured, long_table_threshold, features,
                   rule_features, llm_outcome, llm_result, fe_result>>
    /\ UNCHANGED <<pipeVars, ocrVars, callVars, batchVars, runVars, layoutVars, file_exists,
                   extension, pdf, text_file,
                   backend, metadata, sv_result>>

\* execute returns the LayoutClassifier's result and annotate returns its data
AnnotateReturn ==
    /\ sv_pc = "extract"
    /\ lc_pc = "done"
    /\ lc_result.success
    /\ sv_result' = [outcome |-> "returned", data |-> lc_result.data]
    /\ sv_pc' = "done"
    /\ UNCHANGED <<file_exists, extension, pdf, text_file, backend, metadata>>
    /\ UNCHANGED <<pipeVars, ocrVars, callVars, batchVars, runVars, featVars, layoutVars>>

NextService ==
    \/ ParseMissingFile
    \/ ParsePdfPlumber
    \/ ParsePdfPyPDF2
    \/ ParsePdfNoBackend
    \/ ParseText
    \/ DetectFromMetadata
    \/ DetectNothing
    \/ NextFeature
    \/ NextLayout
    \/ AnnotateReturn

\* --------------------------------------------- helpers of DocParser alone
NoCall == [none |-> TRUE]

\* No helper call of its own is made.
CallIdle ==
    /\ call_pc = "idle"
    /\ call_args = NoCall
    /\ call_result = NoCall

\* _detect_chart on arbitrary tallies
MaxRects == 40
MaxCurves == 7
MaxChartTables == 2
MaxChartPages == 3
ChartTallies ==
    [total_lines : {0, 30}, total_rects : 0 .. MaxRects,
     total_curves : 0 .. MaxCurves, total_tables : 0 .. MaxChartTables,
     page_count : 0 .. MaxChartPages]

ChartInit ==
    /\ call_pc = "called"
    /\ call_args \in ChartTallies
    /\ call_result = NoCall

DetectChart ==
    /\ call_pc = "called"
    /\ call_result' = [has_chart |->
            detect_chart(call_args.total_lines, call_args.total_rects,
                         call_args.total_curves, call_args.total_tables,
                         call_args.page_count)]
    /\ call_pc' = "returned"
    /\ UNCHANGED call_args
    /\ UNCHANGED notCall

NextChart == DetectChart

\* _bbox_overlap on arbitrary boxes (x0, y0, x1, y1) with whole coordinates
MaxCoord == 3
Boxes == [1 .. 4 -> 0 .. MaxCoord]

\* A ratio overlap_area / bbox1_area as numerator and denominator; 0.0 is 0/1
Ratio(num, den) == [num |-> num, den |-> den]
ZeroRatio == Ratio(0, 1)

\* Mutant: the test for boxes that do not intersect is left out.
bbox_overlap_unguarded(bbox1, bbox2) ==
    LET x0 == Max2(bbox1[1], bbox2[1])
        y0 == Max2(bbox1[2], bbox2[2])
        x1 == Min2(bbox1[3], bbox2[3])
        y1 == Min2(bbox1[4], bbox2[4])
        overlap_area == (x1 - x0) * (y1 - y0)
        bbox1_area == (bbox1[3] - bbox1[1]) * (bbox1[4] - bbox1[2])
    IN IF bbox1_area <= 0 THEN ZeroRatio
       ELSE Ratio(overlap_area, bbox1_area)

\* _bbox_overlap
bbox_overlap(bbox1, bbox2) ==
    LET x0 == Max2(bbox1[1], bbox2[1])
        y0 == Max2(bbox1[2], bbox2[2])
        x1 == Min2(bbox1[3], bbox2[3])
        y1 == Min2(bbox1[4], bbox2[4])
        overlap_area == (x1 - x0) * (y1 - y0)
        bbox1_area == (bbox1[3] - bbox1[1]) * (bbox1[4] - bbox1[2])
    IN IF x0 >= x1 \/ y0 >= y1 THEN ZeroRatio
       ELSE IF bbox1_area <= 0 THEN ZeroRatio
       ELSE Ratio(overlap_area, bbox1_area)

OverlapInit ==
    /\ call_pc = "called"
    /\ call_args \in [bbox1 : Boxes, bbox2 : Boxes]
    /\ call_result = NoCall

BboxOverlap ==
    /\ call_pc = "called"
    /\ call_result' = bbox_overlap(call_args.bbox1, call_args.bbox2)
    /\ call_pc' = "returned"
    /\ UNCHANGED call_args
    /\ UNCHANGED notCall

NextOverlap == BboxOverlap

\* _parse_docx: the page count of a Word document with page_breaks page
\* break markers, paragraph_lines non-empty paragraphs and table_rows rows
\* over all its tables
MaxBreaks == 3
ParagraphLines == {0, 20, 49, 50, 99, 100}
TableRowTotals == {0, 1, 50, 120}
docx_lines_per_page == 50

docx_page_count(page_breaks, paragraph_lines, table_rows) ==
    LET total_content_lines == paragraph_lines + table_rows
        docx_estimated_pages ==
            Max2(1, total_content_lines \div docx_lines_per_page + 1)
    IN Max2(page_breaks + 1, docx_estimated_pages)

DocxInit ==
    /\ call_pc = "called"
    /\ call_args \in [page_breaks : 0 .. MaxBreaks,
                      paragraph_lines : ParagraphLines,
                      table_rows : TableRowTotals]
    /\ call_result = NoCall

ParseDocxPageCount ==
    /\ call_pc = "called"
    /\ call_result' = [page_count |->
            docx_page_count(call_args.page_breaks, call_args.paragraph_lines,
                            call_args.table_rows)]
    /\ call_pc' = "returned"
    /\ UNCHANGED call_args
    /\ UNCHANGED notCall

NextDocx == ParseDocxPageCount

\* ----------------------------------------------- DocParser.process alone
\* The file behind a path: its pages, slides, worksheets or page breaks
\* (units), and the "\n" of its text or its paragraph lines (lines).
MaxUnits == 3
LineCounts == {0, 48, 49, 120}
FileExtensions ==
    {".pdf", ".PDF", ".doc", ".docx", ".xls", ".xlsx", ".ppt", ".pptx",
     ".html", ".htm", ".txt", ".md", ".xyz", ""}
PathStems == {"docs/report", "./docs/report"}
Faults == {"none", "ImportError", "library error"}

\* str(Path(input_data)): a leading "./" is dropped
pure_path(stem) == IF stem = "./docs/report" THEN "docs/report" ELSE stem

\* file_path.suffix.lower()
lower(ext) == IF ext = ".PDF" THEN ".pdf" ELSE ext

EXT_TO_FILE_TYPE ==
    [e \in {".pdf", ".doc", ".docx", ".xls", ".xlsx", ".ppt", ".pptx",
            ".html", ".htm", ".txt", ".md"} |->
        CASE e = ".pdf" -> "pdf"
          [] e \in {".doc", ".docx"} -> "doc"
          [] e \in {".xls", ".xlsx"} -> "excel"
          [] e \in {".ppt", ".pptx"} -> "ppt"
          [] e \in {".html", ".htm"} -> "html"
          [] e = ".txt" -> "txt"
          [] e = ".md" -> "md"]

\* _detect_file_type: EXT_TO_FILE_TYPE.get(ext, FileType.TXT)
detect_file_type(ext) ==
    IF lower(ext) \in DOMAIN EXT_TO_FILE_TYPE
    THEN EXT_TO_FILE_TYPE[lower(ext)] ELSE "txt"

\* The format parser process dispatches to, None for no branch of the chain
parser_of(ft) ==
    CASE ft = "pdf" -> "_parse_pdf"
      [] ft = "doc" -> "_parse_docx"
      [] ft = "excel" -> "_parse_excel"
      [] ft = "ppt" -> "_parse_pptx"
      [] ft = "html" -> "_parse_html"
      [] ft \in {"txt", "md"} -> "_parse_text"
      [] OTHER -> None

\* page_count of the DocContent each format parser builds
parsed_page_count(parser, units, lines) ==
    CASE parser = "_parse_pdf" -> units               \* len(pdf.pages)
      [] parser = "_parse_docx" -> docx_page_count(units, lines, 0)
      [] parser = "_parse_excel" -> units             \* len(wb.worksheets)
      [] parser = "_parse_pptx" -> units              \* len(prs.slides)
      [] parser = "_parse_html" -> 1
      [] parser = "_parse_text" ->                    \* len(text.split("\n"))
            Max2(1, (lines + 1) \div lines_per_page)

\* file_type of the DocContent each format parser builds
parsed_file_type(parser, ext) ==
    CASE parser = "_parse_pdf" -> "pdf"
      [] parser = "_parse_docx" -> "doc"
      [] parser = "_parse_excel" -> "excel"
      [] parser = "_parse_pptx" -> "ppt"
      [] parser = "_parse_html" -> "html"
      [] parser = "_parse_text" -> IF ext = ".md" THEN "md" ELSE "txt"

\* ProcessResult of DocParser.process; invoked is the format parser that
\* was called, raised says that an exception left process.
ParserResult(success, data, errors, invoked) ==
    [success |-> success, data |-> data, errors |-> errors,
     invoked |-> invoked, raised |-> FALSE]

\* errors=[f"<file does not exist>: {input_data}"]
not_found_result(args) ==
    ParserResult(FALSE, None,
                 <<[message |-> "file does not exist", path |-> args.stem,
                    ext |-> args.ext]>>, None)

\* Mutant: an exception of the format parser leaves process.
dispatch_uncaught(args) ==
    LET parser == parser_of(detect_file_type(args.ext))
    IN IF args.fault # "none"
       THEN [ParserResult(FALSE, None, <<>>, parser) EXCEPT !.raised = TRUE]
       ELSE ParserResult(TRUE,
                [file_type |-> parsed_file_type(parser, args.ext),
                 file_path |-> pure_path(args.stem),
                 page_count |-> parsed_page_count(parser, args.units,
                                                  args.lines)],
                <<>>, parser)

\* The try block of process: the if-chain over the detected type, and the
\* except branch with f"<error while parsing> {file_path}: {str(e)}"
dispatch(args) ==
    LET parser == parser_of(detect_file_type(args.ext))
    IN IF parser = None
       THEN ParserResult(FALSE, None,
                <<[message |-> "unsupported file type", path |-> None,
                   ext |-> None]>>, None)
       ELSE IF args.fault # "none"
       THEN ParserResult(FALSE, None,
                <<[message |-> "error while parsing", path |-> pure_path(args.stem),
                   ext |-> args.ext, cause |-> args.fault]>>, parser)
       ELSE ParserResult(TRUE,
                [file_type |-> parsed_file_type(parser, args.ext),
                 file_path |-> pure_path(args.stem),
                 page_count |-> parsed_page_count(parser, args.units,
                                                  args.lines)],
                <<>>, parser)

\* Mutant: process does not look whether the file exists.
process_without_exists(args) == dispatch(args)

\* DocParser.process
process(args) ==
    IF ~args.exists THEN not_found_result(args) ELSE dispatch(args)

\* process called on a path; _parse_text is the one format parser that
\* imports no library.
ParserInit ==
    /\ call_pc = "called"
    /\ call_args \in [exists : BOOLEAN, stem : PathStems,
                      ext : FileExtensions, units : 0 .. MaxUnits,
                      lines : LineCounts, fault : Faults]
    /\ (call_args.fault = "ImportError") =>
            parser_of(detect_file_type(call_args.ext)) # "_parse_text"
    /\ call_result = NoCall

Process ==
    /\ call_pc = "called"
    /\ call_result' = process(call_args)
    /\ call_pc' = "returned"
    /\ UNCHANGED call_args
    /\ UNCHANGED notCall

NextParser == Process

\* ------------------------------------ AnnotationService.annotate_batch
\* The inputs of a batch: paths, each with what lies behind it. A PDF is
\* read by pdfplumber; on an unreadable one pdfplumber raises.
MaxBatch == 3
BatchPaths == {"a", "b"}
BatchKinds == {"missing", "text", "pdf", "unreadable pdf"}
BatchInput == [path : BatchPaths, kind : BatchKinds]
BatchInputLists ==
    {s \in UNION {[1 .. n -> BatchInput] : n \in 0 .. MaxBatch} :
        \A j, k \in DOMAIN s : s[j].path = s[k].path => s[j].kind = s[k].kind}

\* Pipeline.execute on one input of the four-stage pipeline, under the
\* sys.stderr it finds: DocParser fails at step 0 on a missing or
\* unreadable file, otherwise the four stages succeed. No stage reads
\* sys.stderr into its result.
execute(inp, stderr) ==
    IF inp.kind \in {"missing", "unreadable pdf"}
    THEN [success |-> FALSE, data |-> inp.path,
          errors |-> <<IF inp.kind = "missing" THEN "file does not exist"
                       ELSE "error while parsing", inp.path>>,
          metadata |-> [failed_at_step |-> 0, processor |-> "DocParser"]]
    ELSE [success |-> TRUE,
          data |-> [doc_id |-> inp.path,
                    file_type |-> IF inp.kind = "pdf" THEN "pdf" ELSE "txt"],
          errors |-> <<>>,
          metadata |-> [steps_executed |-> 4]]

\* _parse_pdf is entered: the file exists and its type is pdf
enters_parse_pdf(inp) == inp.kind \in {"pdf", "unreadable pdf"}

\* sys.stderr after DocParser.process: _parse_pdf keeps the stream in
\* _stderr, sets sys.stderr = io.StringIO() and puts _stderr back after
\* the with block or on ImportError; an exception of pdfplumber leaves the
\* StringIO in place.
stderr_after(inp, k, stderr) ==
    IF inp.kind = "unreadable pdf" THEN k ELSE stderr

\* [result.data for result in results if result.success]
RECURSIVE successes(_)
successes(results) ==
    IF results = <<>> THEN <<>>
    ELSE IF Head(results).success
         THEN <<Head(results).data>> \o successes(Tail(results))
         ELSE successes(Tail(results))

BatchIdle ==
    /\ batch_pc = "idle"
    /\ batch_inputs = <<>>
    /\ batch_results = <<>>
    /\ annotations = <<>>
    /\ sys_stderr = 0
    /\ stderr_flows = {}

\* annotate_batch(file_paths): _build_pipeline, execute_batch entered
BatchInit ==
    /\ batch_pc = "loop"
    /\ batch_inputs \in BatchInputLists
    /\ batch_results = <<>>
    /\ annotations = <<>>
    /\ sys_stderr = 0
    /\ stderr_flows = {}

\* One element of [self.execute(input_data) for input_data in inputs]
BatchExecute ==
    /\ batch_pc = "loop"
    /\ Len(batch_results) < Len(batch_inputs)
    /\ LET k == Len(batch_results) + 1
           inp == batch_inputs[k]
       IN /\ batch_results' = Append(batch_results, execute(inp, sys_stderr))
          /\ stderr_flows' =
                IF enters_parse_pdf(inp) /\ sys_stderr # 0
                THEN stderr_flows \cup {<<sys_stderr, k>>} ELSE stderr_flows
          /\ sys_stderr' = stderr_after(inp, k, sys_stderr)
    /\ UNCHANGED <<batch_pc, batch_inputs, annotations>>
    /\ UNCHANGED notBatch

\* The comprehension is exhausted; annotate_batch keeps the data of the
\* successes and prints the errors of the failures.
BatchReturn ==
    /\ batch_pc = "loop"
    /\ Len(batch_results) = Len(batch_inputs)
    /\ annotations' = successes(batch_results)
    /\ batch_pc' = "returned"
    /\ UNCHANGED <<batch_inputs, batch_results, sys_stderr, stderr_flows>>
    /\ UNCHANGED notBatch

NextBatch == BatchExecute \/ BatchReturn

\* -------------------------------------------------- BatchAnnotator.run
\* The input directory: at most MaxFiles files, no path twice, in the
\* order rglob yields them.
MaxFiles == 3
RunPaths == [stem : {"a", "b"}, ext : {".pdf", ".docx", ".txt"}]
SUPPORTED_EXTENSIONS ==
    {".pdf", ".doc", ".docx", ".xls", ".xlsx", ".ppt", ".pptx"}
Listings ==
    {s \in UNION {[1 .. n -> RunPaths] : n \in 0 .. MaxFiles} :
        \A j, k \in DOMAIN s : j # k => s[j] # s[k]}
\* a record left by an earlier run, at the output path of a.*
EarlierRecord ==
    [path |-> "a", source |-> [stem |-> "earlier run", ext |-> ""],
     complete |-> TRUE]
\* how one process_file call ends: annotate returns and the record is
\* written; annotate raises; save_annotation raises before the file is
\* opened; save_annotation raises with the file opened for writing
Fates == {"annotated", "annotate raises", "save raises", "write raises"}

\* get_output_path: the relative path with the suffix .json
get_output_path(file) == file.stem

\* failed_files.json is not written
NoReport == [written |-> FALSE, entries |-> <<>>]

\* should_process
should_process(file, failed_names, skip, records) ==
    /\ file \notin failed_names
    /\ file.ext \in SUPPORTED_EXTENSIONS
    /\ ~(skip /\ \E r \in records : r.path = get_output_path(file))

\* collect_files: the files of the listing that should be processed
RECURSIVE collect_files(_, _, _, _)
collect_files(listing, failed_names, skip, records) ==
    IF listing = <<>> THEN <<>>
    ELSE (IF should_process(Head(listing), failed_names, skip, records)
          THEN <<Head(listing)>> ELSE <<>>)
         \o collect_files(Tail(listing), failed_names, skip, records)

\* No run is in progress.
RunIdle ==
    /\ run_pc = "idle"
    /\ input_dir = <<>>
    /\ output_dir = {}
    /\ skip_existing = TRUE
    /\ parsing_failed = {}
    /\ files = <<>>
    /\ stats = [total_files |-> 0, processed |-> 0, skipped |-> 0,
                failed |-> 0, success |-> 0]
    /\ failed_files = <<>>
    /\ processed_log = <<>>
    /\ failure_report = NoReport

\* BatchAnnotator(input_dir, output_dir, skip_existing=...) and run called
RunInit ==
    /\ run_pc = "start"
    /\ input_dir \in Listings
    /\ output_dir \in {{}, {EarlierRecord}}
    /\ skip_existing \in BOOLEAN
    /\ parsing_failed \in {{}, {[stem |-> "b", ext |-> ".pdf"]}}
    /\ files = <<>>
    /\ stats = [total_files |-> 0, processed |-> 0, skipped |-> 0,
                failed |-> 0, success |-> 0]
    /\ failed_files = <<>>
    /\ processed_log = <<>>
    /\ failure_report = NoReport

\* run: files = self.collect_files(); "if not files: return"
RunCollect ==
    /\ run_pc = "start"
    /\ files' = collect_files(input_dir, parsing_failed, skip_existing,
                              output_dir)
    /\ stats' = [stats EXCEPT !.total_files = @ + Len(input_dir)]
    /\ run_pc' = IF files' = <<>> THEN "returned" ELSE "loop"
    /\ UNCHANGED <<input_dir, output_dir, skip_existing, parsing_failed,
                   failed_files, processed_log, failure_report>>
    /\ UNCHANGED notRun

\* the record save_annotation leaves at the output path of file
written(records, file, complete) ==
    {r \in records : r.path # get_output_path(file)}
        \cup {[path |-> get_output_path(file), source |-> file,
                complete |-> complete]}

\* Mutant: a failure is counted but not entered in the failure list.
ProcessFileUnlisted(fate) ==
    /\ run_pc = "loop"
    /\ stats.processed < Len(files)
    /\ LET file == files[stats.processed + 1]
       IN /\ processed_log' = Append(processed_log,
                                     [file |-> file, fate |-> fate])
          /\ IF fate = "annotated"
             THEN /\ output_dir' = written(output_dir, file, TRUE)
                  /\ stats' = [stats EXCEPT !.success = @ + 1,
                                            !.processed = @ + 1]
             ELSE /\ output_dir' = IF fate = "write raises"
                                   THEN written(output_dir, file, FALSE)
                                   ELSE output_dir
                  /\ stats' = [stats EXCEPT !.failed = @ + 1,
                                            !.processed = @ + 1]
          /\ UNCHANGED failed_files
    /\ UNCHANGED <<run_pc, input_dir, skip_existing, parsing_failed, files,
                   failure_report>>
    /\ UNCHANGED notRun

\* One turn of the loop of run: process_file(file_path), whose except
\* branch counts the failure and appends {"file", "error"}; then
\* stats["processed"] += 1
ProcessFile(fate) ==
    /\ run_pc = "loop"
    /\ stats.processed < Len(files)
    /\ LET file == files[stats.processed + 1]
       IN /\ processed_log' = Append(processed_log,
                                     [file |-> file, fate |-> fate])
          /\ IF fate = "annotated"
             THEN /\ output_dir' = written(output_dir, file, TRUE)
                  /\ stats' = [stats EXCEPT !.success = @ + 1,
                                            !.processed = @ + 1]
                  /\ UNCHANGED failed_files
             ELSE /\ output_dir' = IF fate = "write raises"
                                   THEN written(output_dir, file, FALSE)
                                   ELSE output_dir
                  /\ stats' = [stats EXCEPT !.failed = @ + 1,
                                            !.processed = @ + 1]
                  /\ failed_files' = Append(failed_files,
                                            [file |-> file, error |-> fate])
    /\ UNCHANGED <<run_pc, input_dir, skip_existing, parsing_failed, files,
                   failure_report>>
    /\ UNCHANGED notRun

\* The loop is exhausted: failed_files.json is written when there are
\* failures, the statistics are printed.
RunFinish ==
    /\ run_pc = "loop"
    /\ stats.processed = Len(files)
    /\ failure_report' = IF failed_files # <<>>
                         THEN [written |-> TRUE, entries |-> failed_files]
                         ELSE failure_report
    /\ run_pc' = "returned"
    /\ UNCHANGED <<input_dir, output_dir, skip_existing, parsing_failed,
                   files, stats, failed_files, processed_log>>
    /\ UNCHANGED notRun

NextRun ==
    \/ RunCollect
    \/ \E fate \in Fates : ProcessFile(fate)
    \/ RunFinish

\* ------------------------------------------ ElementDetector.process alone
MaxRasterPages == 2
confidence_threshold == 5   \* 0.5, confidences counted in tenths

\* Metadata as the parsers write it: the four flags alone (the PyPDF2
\* branch), or the flags with the counts they were derived from.
FlagMetadata ==
    [has_image : BOOLEAN, has_table : BOOLEAN, has_formula : BOOLEAN,
     has_chart : BOOLEAN]
ElementCounts == {0, 1, 3}
CountedMetadata ==
    {[has_image |-> ic > 0, has_table |-> tc > 0, has_formula |-> hf,
      has_chart |-> cc > 0, image_count |-> ic, table_count |-> tc,
      chart_count |-> cc] :
        ic \in ElementCounts, tc \in ElementCounts, cc \in ElementCounts,
        hf \in BOOLEAN}
\* Metadata that says nothing of images, tables and charts
FormulaMetadata == [has_formula : BOOLEAN]

\* What ocr_model.detect_elements may return for a page: per category, the
\* confidences (in tenths) of the detected elements.
Detected(images, tables, formulas, charts) ==
    [images |-> images, tables |-> tables, formulas |-> formulas,
     charts |-> charts]
DetectResults ==
    {Detected(<<>>, <<>>, <<>>, <<>>),
     Detected(<<>>, <<9>>, <<>>, <<>>),
     Detected(<<3, 8>>, <<>>, <<5>>, <<4>>)}

RECURSIVE kept(_, _)
\* the elements of one category that pass the confidence threshold, as
\* ElementInfo(page=page_idx) without a row count
kept(confidences, page_idx) ==
    IF confidences = <<>> THEN <<>>
    ELSE (IF Head(confidences) >= confidence_threshold
          THEN <<ElementInfo(page_idx, 0)>> ELSE <<>>)
         \o kept(Tail(confidences), page_idx)

\* _process_with_ocr, the body of the loop for one page
append_detected(elems, detected, page_idx) ==
    [images |-> elems.images \o kept(detected.images, page_idx),
     tables |-> elems.tables \o kept(detected.tables, page_idx),
     formulas |-> elems.formulas \o kept(detected.formulas, page_idx),
     charts |-> elems.charts \o kept(detected.charts, page_idx)]

\* ProcessResult(success=True, data=(input_data, elements), metadata=...)
DetectorSuccess(elems, source, warning) ==
    [success |-> TRUE, returned |-> TRUE, has_data |-> TRUE, data |-> elems,
     errors |-> <<>>, source |-> source, warning |-> warning]
\* ProcessResult(success=False, errors=[...]): data stays None
DetectorFailure(page_idx) ==
    [success |-> FALSE, returned |-> TRUE, has_data |-> FALSE,
     data |-> ElementList,
     errors |-> <<[text |-> "Error detecting elements on page",
                   page |-> page_idx]>>,
     source |-> "none", warning |-> FALSE]
NoDetectorResult ==
    [success |-> FALSE, returned |-> FALSE, has_data |-> FALSE,
     data |-> ElementList, errors |-> <<>>, source |-> "none",
     warning |-> FALSE]
NoExecResult == [outcome |-> "none"]

\* No ElementDetector.process call of its own is made.
DetectorIdle ==
    /\ det_pc = "idle"
    /\ raster_pages = 0
    /\ ocr_configured = FALSE
    /\ ocr_page = 0
    /\ ocr_calls = <<>>
    /\ det_result = NoDetectorResult
    /\ exec_result = NoExecResult

\* ElementDetector(config) and process called by a Pipeline on a DocContent:
\* elements = ElementList()
DetectorInit ==
    /\ det_pc = "start"
    /\ raster_pages \in 0 .. MaxRasterPages
    /\ ocr_configured \in BOOLEAN
    /\ ocr_page = 0
    /\ ocr_calls = <<>>
    /\ det_result = NoDetectorResult
    /\ exec_result = NoExecResult
    /\ file_type \in FileTypes
    /\ \/ metadata = NoMetadata
       \/ metadata \in FormulaMetadata
       \/ metadata \in FlagMetadata
       \/ metadata \in CountedMetadata
    /\ elements = ElementList

\* what ElementDetector.process leaves alone, besides its own variables
notDetector ==
    <<pipeVars, callVars, batchVars, runVars, layoutVars, page_count, llm_configured,
      long_table_threshold,
      features, rule_features, llm_outcome, llm_result, fe_result, fe_pc,
      sv_pc, file_exists, extension, pdf, text_file, backend, metadata,
      sv_result, raster_pages, ocr_configured>>

\* Mutant: the metadata path adds a placeholder for every category.
ProcessFromMetadataAll ==
    /\ det_pc = "start"
    /\ has_metadata_info(metadata)
    /\ elements' = [images |-> <<Placeholder>>, tables |-> <<Placeholder>>,
                    formulas |-> <<Placeholder>>, charts |-> <<Placeholder>>]
    /\ det_result' = DetectorSuccess(elements', "metadata", FALSE)
    /\ det_pc' = "done"
    /\ UNCHANGED <<ocr_page, ocr_calls, exec_result>>
    /\ UNCHANGED notDetector

\* process: the metadata has element information -> _process_from_metadata
ProcessFromMetadata ==
    /\ det_pc = "start"
    /\ has_metadata_info(metadata)
    /\ elements' = process_from_metadata(metadata)
    /\ det_result' = DetectorSuccess(elements', "metadata", FALSE)
    /\ det_pc' = "done"
    /\ UNCHANGED <<ocr_page, ocr_calls, exec_result>>
    /\ UNCHANGED notDetector

\* Mutant: without metadata and without raster pages the detector fails.
ProcessNoSourceFails ==
    /\ det_pc = "start"
    /\ ~has_metadata_info(metadata)
    /\ ~(file_type = "pdf" /\ raster_pages > 0)
    /\ det_result' = DetectorFailure(0)
    /\ det_pc' = "done"
    /\ UNCHANGED <<elements, ocr_page, ocr_calls, exec_result>>
    /\ UNCHANGED notDetector

\* process: no element information in the metadata and not a PDF with page
\* images -> success with the empty ElementList and a warning
ProcessNoSource ==
    /\ det_pc = "start"
    /\ ~has_metadata_info(metadata)
    /\ ~(file_type = "pdf" /\ raster_pages > 0)
    /\ det_result' = DetectorSuccess(elements, "none", TRUE)
    /\ det_pc' = "done"
    /\ UNCHANGED <<elements, ocr_page, ocr_calls, exec_result>>
    /\ UNCHANGED notDetector

\* _process_with_ocr without an OCR model: success with ElementList() and a
\* warning
OcrNoModel ==
    /\ det_pc = "start"
    /\ ~has_metadata_info(metadata)
    /\ file_type = "pdf" /\ raster_pages > 0
    /\ ~ocr_configured
    /\ det_result' = DetectorSuccess(ElementList, "none", TRUE)
    /\ det_pc' = "done"
    /\ UNCHANGED <<elements, ocr_page, ocr_calls, exec_result>>
    /\ UNCHANGED notDetector

\* _process_with_ocr with an OCR model: the loop over the pages is entered
OcrStart ==
    /\ det_pc = "start"
    /\ ~has_metadata_info(metadata)
    /\ file_type = "pdf" /\ raster_pages > 0
    /\ ocr_configured
    /\ det_pc' = "ocr"
    /\ UNCHANGED <<elements, ocr_page, ocr_calls, det_result, exec_result>>
    /\ UNCHANGED notDetector

\* one iteration: detect_elements returned for page ocr_page
OcrDetectPage(detected) ==
    /\ det_pc = "ocr"
    /\ ocr_page < raster_pages
    /\ ocr_calls' = Append(ocr_calls, ocr_page)
    /\ elements' = append_detected(elements, detected, ocr_page)
    /\ ocr_page' = ocr_page + 1
    /\ UNCHANGED <<det_pc, det_result, exec_result>>
    /\ UNCHANGED notDetector

\* Mutant: the failure of a page is recorded and the loop goes on.
OcrDetectRaisesGoesOn ==
    /\ det_pc = "ocr"
    /\ ocr_page < raster_pages
    /\ ocr_calls' = Append(ocr_calls, ocr_page)
    /\ det_result' = DetectorFailure(ocr_page)
    /\ ocr_page' = ocr_page + 1
    /\ UNCHANGED <<det_pc, elements, exec_result>>
    /\ UNCHANGED notDetector

\* one iteration: detect_elements raised for page ocr_page; the except
\* branch returns the failure
OcrDetectRaises ==
    /\ det_pc = "ocr"
    /\ ocr_page < raster_pages
    /\ ocr_calls' = Append(ocr_calls, ocr_page)
    /\ det_result' = DetectorFailure(ocr_page)
    /\ det_pc' = "done"
    /\ UNCHANGED <<elements, ocr_page, exec_result>>
    /\ UNCHANGED notDetector

\* the loop is over: success with the elements collected
OcrReturn ==
    /\ det_pc = "ocr"
    /\ ocr_page = raster_pages
    /\ det_result' = DetectorSuccess(elements, "ocr", FALSE)
    /\ det_pc' = "done"
    /\ UNCHANGED <<elements, ocr_page, ocr_calls, exec_result>>
    /\ UNCHANGED notDetector

\* Pipeline.execute with the detector as stage 1: a success is handed to the
\* next stage, a failure stops the run at this stage
ExecuteAfterDetector ==
    /\ det_pc = "done"
    /\ exec_result' =
          IF det_result.success
          THEN [outcome |-> "continues"]
          ELSE [outcome |-> "failed", errors |-> det_result.errors,
                failed_at_step |-> 1, processor |-> "ElementDetector"]
    /\ det_pc' = "returned"
    /\ UNCHANGED <<elements, ocr_page, ocr_calls, det_result>>
    /\ UNCHANGED notDetector

NextDetector ==
    \/ ProcessFromMetadata
    \/ ProcessNoSource
    \/ OcrNoModel
    \/ OcrStart
    \/ \E detected \in DetectResults : OcrDetectPage(detected)
    \/ OcrDetectRaises
    \/ OcrReturn
    \/ ExecuteAfterDetector

\* ------------------------------------------------------------- Pipeline
NoResult == [success |-> FALSE, data |-> 0, errors |-> <<>>,
             metadata |-> [none |-> TRUE]]

\* One processor.process call as the history records it.
Call(idx, inp, outcome, out) ==
    [idx |-> idx, input |-> inp, outcome |-> outcome, output |-> out]

\* Pipeline.__init__ with no steps.
PipelineInit ==
    /\ steps = <<>>
    /\ pc = "idle"
    /\ i = 0
    /\ input_data = 0
    /\ current_data = 0
    /\ all_errors = <<>>
    /\ result = NoResult
    /\ calls = <<>>

\* Pipeline.add
Add(processor) ==
    /\ pc = "idle"
    /\ Len(steps) < MaxSteps
    /\ steps' = Append(steps, processor)
    /\ UNCHANGED <<pc, i, input_data, current_data, all_errors, result, calls>>
    /\ UNCHANGED notPipe

\* Pipeline.execute, entry: current_data = input_data; all_errors = []
Execute(d) ==
    /\ pc = "idle"
    /\ pc' = "loop"
    /\ i' = 0
    /\ input_data' = d
    /\ current_data' = d
    /\ all_errors' = <<>>
    /\ result' = NoResult
    /\ calls' = <<>>
    /\ UNCHANGED steps
    /\ UNCHANGED notPipe

\* Mutant: the stage's output is dropped, the next stage gets the old data.
StageSuccessKeepsInput(out) ==
    /\ pc = "loop"
    /\ i < Len(steps)
    /\ calls' = Append(calls, Call(i, current_data, "ok", out))
    /\ i' = i + 1
    /\ UNCHANGED <<steps, pc, input_data, current_data, all_errors, result>>
    /\ UNCHANGED notPipe

\* Loop body, processor.process returned success: current_data = result.data
StageSuccess(out) ==
    /\ pc = "loop"
    /\ i < Len(steps)
    /\ calls' = Append(calls, Call(i, current_data, "ok", out))
    /\ current_data' = out
    /\ i' = i + 1
    /\ UNCHANGED <<steps, pc, input_data, all_errors, result>>
    /\ UNCHANGED notPipe

\* Mutant: a reported failure is ignored and the loop goes on.
StageFailureContinues(errs, out) ==
    /\ pc = "loop"
    /\ i < Len(steps)
    /\ calls' = Append(calls, Call(i, current_data, "fail", out))
    /\ i' = i + 1
    /\ UNCHANGED <<steps, pc, input_data, current_data, all_errors, result>>
    /\ UNCHANGED notPipe

\* Loop body, processor.process returned success = False: return at once
\* with the data handed to the stage and the stage's own error list.
StageFailure(errs, out) ==
    /\ pc = "loop"
    /\ i < Len(steps)
    /\ calls' = Append(calls, Call(i, current_data, "fail", out))
    /\ result' = [success |-> FALSE, data |-> current_data, errors |-> errs,
                  metadata |-> [failed_at_step |-> i, processor |-> steps[i + 1]]]
    /\ pc' = "done"
    /\ UNCHANGED <<steps, i, input_data, current_data, all_errors>>
    /\ UNCHANGED notPipe

\* Loop body, processor.process raised an Exception: caught, recorded in
\* all_errors, returned as a failure.
StageRaise(msg) ==
    /\ pc = "loop"
    /\ i < Len(steps)
    /\ calls' = Append(calls, Call(i, current_data, "raise", current_data))
    /\ all_errors' = Append(all_errors, <<"Exception in", steps[i + 1], msg>>)
    /\ result' = [success |-> FALSE, data |-> current_data,
                  errors |-> all_errors',
                  metadata |-> [failed_at_step |-> i, processor |-> steps[i + 1]]]
    /\ pc' = "done"
    /\ UNCHANGED <<steps, i, input_data, current_data>>
    /\ UNCHANGED notPipe

\* The loop is exhausted: success, steps_executed = len(self.steps)
ExecuteReturn ==
    /\ pc = "loop"
    /\ i = Len(steps)
    /\ result' = [success |-> TRUE, data |-> current_data, errors |-> <<>>,
                  metadata |-> [steps_executed |-> Len(steps)]]
    /\ pc' = "done"
    /\ UNCHANGED <<steps, i, input_data, current_data, all_errors, calls>>
    /\ UNCHANGED notPipe

\* The caller has the result; the pipeline object can be executed again.
CallerResumes ==
    /\ pc = "done"
    /\ pc' = "idle"
    /\ UNCHANGED <<steps, i, input_data, current_data, all_errors, result, calls>>
    /\ UNCHANGED notPipe

NextPipeline ==
    \/ \E p \in ClassNames : Add(p)
    \/ \E d \in Data : Execute(d)
    \/ \E out \in Data : StageSuccess(out)
    \/ \E errs \in StageErrors, out \in Data : StageFailure(errs, out)
    \/ \E msg \in ExcMessages : StageRaise(msg)
    \/ ExecuteReturn
    \/ CallerResumes

\* ------------------------------------------------------- specifications
\* Inputs of the two feature stages run back to back: inventories of at most
\* MaxStageTables tables with no row count or with 150 rows, with or without
\* an image.
MaxStageTables == 2
StageTableLists ==
    {s \in TableLists :
        Len(s) <= MaxStageTables /\ \A k \in DOMAIN s : s[k].rows \in {0, 150}}
ImageLists == {<<>>, <<ElementInfo(0, 0)>>}

StagesInit ==
    /\ fe_pc = "start"
    /\ page_count \in 0 .. MaxPages
    /\ elements \in [images : ImageLists, tables : StageTableLists,
                     formulas : {<<>>}, charts : ChartLists]
    /\ llm_configured \in BOOLEAN
    /\ long_table_threshold = 3
    /\ features = FeatureSet
    /\ rule_features = FeatureSet
    /\ llm_outcome = "not called"
    /\ llm_result = NoExtract
    /\ fe_result = NoStageResult

NextStages == NextFeature \/ NextLayout

\* The Pipeline alone: no FeatureExtractor call is in progress.
InitPipeline ==
    PipelineInit /\ FeatureIdle /\ LayoutIdle /\ ServiceIdle /\ DetectorIdle
    /\ CallIdle /\ BatchIdle /\ RunIdle
SpecPipeline == InitPipeline /\ [][NextPipeline]_vars

\* One FeatureExtractor.process call on an arbitrary input; the Pipeline is
\* not used.
InitFeature ==
    FeatureInit /\ PipelineInit /\ LayoutIdle /\ ServiceIdle /\ DetectorIdle
    /\ CallIdle /\ BatchIdle /\ RunIdle
SpecFeature == InitFeature /\ [][NextFeature]_vars

\* FeatureExtractor.process followed by LayoutClassifier.process, with any
\* classifier
InitStages ==
    StagesInit /\ LayoutInit /\ PipelineInit /\ ServiceIdle /\ DetectorIdle
    /\ CallIdle /\ BatchIdle /\ RunIdle
SpecStages == InitStages /\ [][NextStages]_vars

\* AnnotationService.annotate on PDF files
InitService == ServiceInit /\ PipelineInit /\ DetectorIdle /\ CallIdle /\ BatchIdle /\ RunIdle
SpecService == InitService /\ [][NextService]_vars

\* AnnotationService.annotate with a configured long_table_threshold
InitConfigured ==
    ConfiguredServiceInit /\ PipelineInit /\ DetectorIdle /\ CallIdle /\ BatchIdle /\ RunIdle
SpecConfigured == InitConfigured /\ [][NextService]_vars

\* One ElementDetector.process call on an arbitrary DocContent
InitDetector ==
    /\ DetectorInit
    /\ PipelineInit
    /\ fe_pc = "idle" /\ page_count = 0 /\ llm_configured = FALSE
    /\ long_table_threshold = 3
    /\ features = FeatureSet /\ rule_features = FeatureSet
    /\ llm_outcome = "not called" /\ llm_result = NoExtract
    /\ fe_result = NoStageResult
    /\ lc_pc = "idle" /\ text = [len |-> 0, stripped |-> 0] /\ use_llm = TRUE
    /\ lc_llm_outcome = "not called" /\ lc_llm_label = NoLabel
    /\ lc_result = NoStageResult
    /\ sv_pc = "idle" /\ file_exists = FALSE /\ extension = ".pdf"
    /\ pdf = <<>> /\ text_file = NoTxt /\ backend = "none"
    /\ sv_result = NoAnnotation
    /\ CallIdle /\ BatchIdle /\ RunIdle
SpecDetector == InitDetector /\ [][NextDetector]_vars

\* Nothing but one helper call is in progress.
OthersIdle ==
    /\ PipelineInit /\ FeatureIdle /\ LayoutIdle /\ ServiceIdle
    /\ DetectorIdle /\ BatchIdle /\ RunIdle

\* One _detect_chart call on arbitrary tallies
InitChart == ChartInit /\ OthersIdle
SpecChart == InitChart /\ [][NextChart]_vars

\* One _bbox_overlap call on arbitrary boxes
InitOverlap == OverlapInit /\ OthersIdle
SpecOverlap == InitOverlap /\ [][NextOverlap]_vars

\* The page count of one _parse_docx call on an arbitrary Word document
InitDocx == DocxInit /\ OthersIdle
SpecDocx == InitDocx /\ [][NextDocx]_vars

\* One DocParser.process call on an arbitrary path
InitParser == ParserInit /\ OthersIdle
SpecParser == InitParser /\ [][NextParser]_vars

\* One annotate_batch call on an arbitrary list of paths
InitBatch ==
    /\ BatchInit
    /\ PipelineInit /\ FeatureIdle /\ LayoutIdle /\ ServiceIdle
    /\ DetectorIdle /\ CallIdle /\ RunIdle
SpecBatch == InitBatch /\ [][NextBatch]_vars

\* One BatchAnnotator.run on an arbitrary input directory
InitRun ==
    /\ RunInit
    /\ PipelineInit /\ FeatureIdle /\ LayoutIdle /\ ServiceIdle
    /\ DetectorIdle /\ CallIdle /\ BatchIdle
SpecRun == InitRun /\ [][NextRun]_vars

\* ------------------------------------------------ claims on the Pipeline
AllOk == \A k \in 1 .. Len(calls) : calls[k].outcome = "ok"
LastOutput == IF Len(steps) = 0 THEN input_data ELSE calls[Len(calls)].output

\* C1: execute calls the stages in list order, each at most once per call
\* and never again; stage k+1 is called only after stage k returned success
\* and gets exactly stage k's output; when every stage has succeeded the
\* result is success, its data is the last stage's output (the input for an
\* empty pipeline) and steps_executed is the number of stages.
C1_StagesInOrderThreaded ==
    /\ Len(calls) <= Len(steps)
    /\ \A k \in 1 .. Len(calls) : calls[k].idx = k - 1
    /\ Len(calls) >= 1 => calls[1].input = input_data
    /\ \A k \in 2 .. Len(calls) :
          /\ calls[k - 1].outcome = "ok"
          /\ calls[k].input = calls[k - 1].output
    /\ (pc = "done" /\ AllOk) =>
          /\ Len(calls) = Len(steps)
          /\ result.success
          /\ result.data = LastOutput
          /\ result.metadata = [steps_executed |-> Len(steps)]
    /\ (pc = "done" /\ result.success) => (AllOk /\ Len(calls) = Len(steps))

\* C1 witness: a three-stage run that succeeded and changed the data twice.
C1_Witness ==
    /\ pc = "done"
    /\ result.success
    /\ Len(calls) = 3
    /\ calls[1].output # calls[1].input
    /\ calls[2].output # calls[2].input
    /\ result.data = calls[3].output

FailedAt(k) ==
    /\ Len(calls) = k + 1
    /\ calls[k + 1].outcome \in {"fail", "raise"}

\* What C2 says of a finished run whose stage k failed, the error list aside.
StopsAndReports(k) ==
    /\ pc # "escaped"
    /\ ~result.success
    /\ result.data = calls[k + 1].input
    /\ result.data = (IF k = 0 THEN input_data ELSE calls[k].output)
    /\ result.metadata = [failed_at_step |-> k, processor |-> steps[k + 1]]

RuleFeatureSet ==
    extract_chart_features(elements,
        extract_table_features(page_count, elements, long_table_threshold,
                               FeatureSet))
RuleLayout ==
    IF file_type = "pdf" THEN classify_by_rules(text, elements, RuleFeatureSet)
    ELSE "single"
BothStagesDone == fe_pc = "done" /\ lc_pc = "done"
\* every classifier call that was made raised
ClassifierAlwaysRaised ==
    llm_configured /\ llm_outcome = "raised" /\ lc_llm_outcome # "returned"

ScenarioPdfs ==
    {p \in [1 .. 5 -> {BlankPage, TextPage, TablePage}] :
        /\ p[1] # TablePage /\ p[5] # TablePage
        /\ \A k \in 2 .. 4 : p[k] = TablePage}
ScenarioAnnotated ==
    /\ sv_pc = "done"
    /\ extension = ".pdf"
    /\ pdf \in ScenarioPdfs
    /\ backend = "pdfplumber"
    /\ ~llm_configured

\* C9: the full pipeline without classifier on the five-page PDF with 60-row
\* tables on pages 2, 3 and 4 yields has_table and a table_profile whose
\* cross_page_table, long_table and table_dominant are all true.
C9_FivePageTableScenario ==
    ScenarioAnnotated =>
        /\ sv_result.outcome = "returned"
        /\ sv_result.data.has_table
        /\ sv_result.data.table_profile # <<>>
        /\ sv_result.data.table_profile[1].cross_page_table
        /\ sv_result.data.table_profile[1].long_table
        /\ sv_result.data.table_profile[1].table_dominant = "True"

\* What the pipeline yields on that PDF: the table is seen, and its profile
\* is false on all three flags.
C9_ScenarioOutcome ==
    ScenarioAnnotated =>
        /\ sv_result.outcome = "returned"
        /\ sv_result.data.has_table
        /\ sv_result.data.table_profile =
              <<[long_table |-> FALSE, cross_page_table |-> FALSE,
                 table_dominant |-> "False"]>>
C9_ScenarioReached == ScenarioAnnotated

\* ---------------------------------------- claims on the FeatureExtractor
RuleStageDone == fe_pc \in {"rules", "done"}
HasTables == elements.tables # <<>>
TablePageSet == {elements.tables[k].page : k \in 1 .. Len(elements.tables)}
RowTotal == total_table_rows(elements.tables)
RowMax == max_table_rows(elements.tables)

\* The four table-dominance conditions as the specification words them, the
\* ratios taken as exact fractions:
\*   table-bearing pages / total pages >= 0.6
\*   total table rows / 50 / total pages >= 0.6
\*   every page contains a table
\*   table count >= page count
StatedRuleConditionMet ==
    /\ page_count >= 1
    /\ \/ 10 * Cardinality(TablePageSet) >= 6 * page_count
       \/ 10 * RowTotal >= 6 * 50 * page_count
       \/ Cardinality(TablePageSet) = page_count
       \/ Len(elements.tables) >= page_count

\* The same four conditions with the row estimate in whole pages:
\* floor(total table rows / 50) / total pages >= 0.6
WholePageRuleConditionMet ==
    /\ page_count >= 1
    /\ \/ 10 * Cardinality(TablePageSet) >= 6 * page_count
       \/ 10 * (RowTotal \div 50) >= 6 * page_count
       \/ Cardinality(TablePageSet) = page_count
       \/ Len(elements.tables) >= page_count

\* C3: with at least one table (on a document of at least one page), no
\* rule condition met and no classifier, table_dominant is left unset
\* (None), never an explicit false.
C3_UndeterminedNotFalse ==
    (/\ fe_pc = "done"
     /\ page_count >= 1
     /\ HasTables
     /\ ~llm_configured
     /\ ~StatedRuleConditionMet)
        => features.table_dominant = None

\* C4 as stated: with at least one table and page_count >= 1 the rule stage
\* sets table_dominant = true exactly when one of the four stated conditions
\* holds, the row coverage being total rows / 50 / total pages.
C4_Original ==
    (RuleStageDone /\ HasTables /\ page_count >= 1) =>
        (rule_features.table_dominant = "True" <=> StatedRuleConditionMet)

\* C4 amended: the same, the row coverage being counted in whole pages:
\* floor(total rows / 50) / total pages >= 0.6.
C4_DominantExactlyWhenRule ==
    (RuleStageDone /\ HasTables /\ page_count >= 1) =>
        (rule_features.table_dominant = "True" <=> WholePageRuleConditionMet)

\* C4 witness: dominance by the row estimate alone (one 150-row table on
\* one of three pages).
C4_Witness ==
    /\ RuleStageDone
    /\ page_count = 3
    /\ Len(elements.tables) = 1
    /\ elements.tables[1].rows = 150
    /\ rule_features.table_dominant = "True"

\* C5: once the rule stage has determined table_dominant, the classifier
\* step leaves it as it is, whatever the classifier returned.
C5_RulesWinOverClassifier ==
    (fe_pc = "done" /\ rule_features.table_dominant # None) =>
        features.table_dominant = rule_features.table_dominant

\* C5 witness: rules said true, the classifier returned false.
C5_Witness ==
    /\ fe_pc = "done"
    /\ llm_outcome = "returned"
    /\ rule_features.table_dominant = "True"
    /\ llm_result.table_dominant = "False"
    /\ features.table_dominant = "True"

\* C6: classifier configured, no rule condition met (tables or not), the
\* classifier returns table_dominant = true: the final value is true.
C6_ClassifierDecidesWhenNoRule ==
    (/\ fe_pc = "done"
     /\ llm_outcome = "returned"
     /\ llm_result.table_dominant = "True"
     /\ page_count >= 1
     /\ (~HasTables \/ ~StatedRuleConditionMet))
        => features.table_dominant = "True"

\* C7: with at least one table, cross_page_table is true exactly when two
\* table pages differ by 1 or some table has more than 50 rows.
C7_CrossPageTableExact ==
    (RuleStageDone /\ HasTables) =>
        (rule_features.cross_page_table <=>
            \/ \E p \in TablePageSet, q \in TablePageSet : q - p = 1
            \/ RowMax > 50)

\* C7 witness: tables on pages 0 and 2 only, the largest of exactly 50 rows:
\* not cross-page.
C7_Witness ==
    /\ RuleStageDone
    /\ TablePageSet = {0, 2}
    /\ RowMax = 50
    /\ ~rule_features.cross_page_table

\* Longest run of consecutive pages that all bear a table.
LongestRun ==
    LET runs == {n \in 1 .. Cardinality(TablePageSet) :
                    \E p \in TablePageSet :
                        \A d \in 0 .. (n - 1) : (p + d) \in TablePageSet}
    IN IF runs = {} THEN 0 ELSE CHOOSE n \in runs : \A m \in runs : m <= n

LayoutDone == fe_pc = "done" /\ lc_pc = "done"
Annotation == lc_result.data
\* the layout was decided by _classify_by_rules: a PDF, and the classifier
\* was not asked or raised
DecidedByRules == file_type = "pdf" /\ lc_llm_outcome # "returned"
double_signal ==
    features.long_table \/ features.cross_page_table \/ features.cross_page_chart
single_signal == elements.images # <<>> \/ text.len > 0

\* C11: the rule layout of a PDF is mixed when double_signal and
\* single_signal both hold, double when only double_signal holds, single
\* otherwise.
C11_LayoutRule ==
    (LayoutDone /\ DecidedByRules) =>
        Annotation.layout =
            IF double_signal /\ single_signal THEN "mixed"
            ELSE IF double_signal THEN "double"
            ELSE "single"

\* C11 witness: a cross-page structure on a PDF whose only text is blank
\* space, classified by the rules.
C11_Witness ==
    /\ LayoutDone /\ DecidedByRules
    /\ double_signal
    /\ elements.images = <<>>
    /\ text.len > 0 /\ text.stripped = 0
    /\ Annotation.layout = "mixed"

\* C12: a non-PDF document gets the single layout whatever the features and
\* the classifier configuration are, and classify is never called for it.
C12_NonPdfAlwaysSingle ==
    (LayoutDone /\ file_type # "pdf") =>
        /\ Annotation.layout = "single"
        /\ lc_result.metadata.layout_type = "single"
        /\ lc_llm_outcome = "not called"

\* C12 witness: a non-PDF document with a cross-page structure and an
\* enabled classifier, annotated single.
C12_Witness ==
    /\ LayoutDone /\ file_type # "pdf"
    /\ llm_configured /\ use_llm
    /\ double_signal /\ single_signal
    /\ Annotation.layout = "single"

\* C13: table_profile is present exactly for a PDF with tables,
\* chart_profile exactly for a PDF with charts, and a non-PDF annotation has
\* the single layout and neither profile.
C13_NestedProfilesOnlyForPdf ==
    LayoutDone =>
        /\ (Annotation.table_profile # <<>>) <=>
                (file_type = "pdf" /\ elements.tables # <<>>)
        /\ (Annotation.chart_profile # <<>>) <=>
                (file_type = "pdf" /\ elements.charts # <<>>)
        /\ (Annotation.file_type # "pdf") =>
                /\ Annotation.layout = "single"
                /\ Annotation.table_profile = <<>>
                /\ Annotation.chart_profile = <<>>

\* C13 witness: a non-PDF document with tables and charts, annotated
\* without nested profiles.
C13_Witness ==
    /\ LayoutDone /\ Annotation.file_type # "pdf"
    /\ elements.tables # <<>> /\ elements.charts # <<>>
    /\ Annotation.has_table /\ Annotation.has_chart
    /\ Annotation.table_profile = <<>> /\ Annotation.chart_profile = <<>>

\* ---------------------------------------- claims on the ElementDetector
DetectorReturned == det_result.returned
MetadataPath == DetectorReturned /\ has_metadata_info(metadata)
Signal(key) == key \in DOMAIN metadata /\ metadata[key]
ZeroBoxOnPageZero(e) == e.bbox = <<0, 0, 0, 0>> /\ e.page = 0
OnePlaceholderIff(collection, key) ==
    IF Signal(key)
    THEN Len(collection) = 1 /\ ZeroBoxOnPageZero(collection[1])
    ELSE collection = <<>>

DetectorFailed == det_result.returned /\ ~det_result.success
FailedPage == det_result.errors[1].page

NoSource ==
    /\ ~has_metadata_info(metadata)
    /\ ~(file_type = "pdf" /\ raster_pages > 0)

\* C16: without has_image / has_table / has_chart in the metadata and
\* without a PDF with page images, the detector returns success with four
\* empty collections and a warning.
C16_NoSourceIsSuccess ==
    (DetectorReturned /\ NoSource) =>
        /\ det_result.success
        /\ det_result.has_data
        /\ det_result.data = ElementList
        /\ det_result.warning
        /\ ocr_calls = <<>>

\* C16 witness: a non-PDF document with page images whose metadata only says
\* that it has a formula.
C16_Witness ==
    /\ DetectorReturned /\ NoSource
    /\ file_type # "pdf" /\ raster_pages > 0 /\ ocr_configured
    /\ metadata \in FormulaMetadata /\ metadata.has_formula
    /\ det_result.success /\ det_result.warning

\* ------------------------------------- claims on the helpers of DocParser
ChartReturned == call_pc = "returned" /\ call_args \in ChartTallies
excess_rects == call_args.total_rects - 10 * call_args.total_tables

\* C17: chart detection is true exactly when curves > 5, or the excess
\* rectangles (rectangles - 10 x tables) per page exceed 5, or there is no
\* table and more than 10 rectangles; so more than 5 curves always give a
\* chart, and no table, curve, rectangle or line gives none.
C17_ChartDetectionExact ==
    ChartReturned =>
        /\ call_result.has_chart <=>
              \/ call_args.total_curves > 5
              \/ (call_args.page_count > 0
                    /\ excess_rects > 5 * call_args.page_count)
              \/ (call_args.total_tables = 0 /\ call_args.total_rects > 10)
        /\ (call_args.total_curves > 5) => call_result.has_chart
        /\ (call_args.total_tables = 0 /\ call_args.total_curves = 0
              /\ call_args.total_rects = 0 /\ call_args.total_lines = 0)
                => ~call_result.has_chart

\* C17 witness: one table and twelve rectangles on two pages, no chart (the
\* table accounts for ten of the rectangles).
C17_Witness ==
    /\ ChartReturned
    /\ call_args.total_tables = 1 /\ call_args.total_rects = 12
    /\ call_args.page_count = 2 /\ call_args.total_curves = 0
    /\ ~call_result.has_chart

OverlapReturned == call_pc = "returned"
Box1 == call_args.bbox1
Box2 == call_args.bbox2
\* the point (x, y) lies in the box
Inside(x, y, b) == b[1] <= x /\ x <= b[3] /\ b[2] <= y /\ y <= b[4]
Disjoint(a, b) ==
    ~ \E x \in 0 .. MaxCoord, y \in 0 .. MaxCoord :
          Inside(x, y, a) /\ Inside(x, y, b)
PositiveArea(b) == b[1] < b[3] /\ b[2] < b[4]
IsOne(q) == q.num = q.den
IsZero(q) == q.num = 0
InUnitRange(q) == q.den > 0 /\ 0 <= q.num /\ q.num <= q.den

\* C18 as stated: the overlap ratio is 1.0 for every pair of identical
\* boxes, 0.0 for every pair of disjoint boxes, and never negative nor above
\* 1.
C18_Original ==
    OverlapReturned =>
        /\ (Box1 = Box2) => IsOne(call_result)
        /\ Disjoint(Box1, Box2) => IsZero(call_result)
        /\ InUnitRange(call_result)

\* C18: the overlap ratio is 1.0 for every pair of identical boxes of
\* positive area and 0.0 for identical boxes without area, 0.0 for every
\* pair of disjoint boxes, and never negative nor above 1.
C18_OverlapRatio ==
    OverlapReturned =>
        /\ (Box1 = Box2 /\ PositiveArea(Box1)) => IsOne(call_result)
        /\ (Box1 = Box2 /\ ~PositiveArea(Box1)) => IsZero(call_result)
        /\ Disjoint(Box1, Box2) => IsZero(call_result)
        /\ InUnitRange(call_result)

\* C18 witness: a box of positive area compared with itself gives 1.0.
C18_Witness ==
    /\ OverlapReturned
    /\ Box1 = Box2 /\ PositiveArea(Box1)
    /\ Box1 = <<0, 1, 2, 3>>
    /\ call_result = Ratio(4, 4)

\* ------------------------------------------- claims on the scanned tables
PlumberAnnotated ==
    /\ sv_pc = "done"
    /\ extension = ".pdf"
    /\ backend = "pdfplumber"
HasScannedPage ==
    \E k \in 1 .. Len(pdf) :
        /\ pdf[k].tables = <<>>
        /\ \E n \in 1 .. Len(pdf[k].images) : 2 * pdf[k].images[n] > 100
NoStructuredTable == \A k \in 1 .. Len(pdf) : pdf[k].tables = <<>>

\* C19: for a PDF with a page that has no structured table and an image over
\* more than half of its area, the annotation has has_image_table = true,
\* and has_table = false when no page has a structured table.
C19_ScannedTableFlagged ==
    (PlumberAnnotated /\ HasScannedPage) =>
        /\ sv_result.outcome = "returned"
        /\ sv_result.data.has_image_table
        /\ NoStructuredTable => ~sv_result.data.has_table

\* What the pipeline yields instead: the parser's metadata flags the scanned
\* table, the annotation does not.
C19_FlagLostAfterParser ==
    (PlumberAnnotated /\ HasScannedPage) =>
        /\ metadata.has_image_table
        /\ ~sv_result.data.has_image_table
        /\ NoStructuredTable => ~sv_result.data.has_table

\* ------------------------------------------- claims on the Word page count
DocxReturned == call_pc = "returned"
ContentLines == call_args.paragraph_lines + call_args.table_rows
\* (p + r) divided by 50 lines per page, with a floor of 1
DensityEstimate == Max2(1, ContentLines \div 50)

\* C20: page_count of a Word document is max(b + 1, d), d being the content
\* lines (p + r) divided by 50 with a floor of 1; without page breaks and
\* with fewer than 50 content lines it is 1.
C20_DocxPageCount ==
    DocxReturned =>
        /\ call_result.page_count =
              Max2(call_args.page_breaks + 1, DensityEstimate)
        /\ (call_args.page_breaks = 0 /\ ContentLines < 50) =>
              call_result.page_count = 1

\* What _parse_docx computes: the density estimate is one page more than
\* the whole quotient.
C20_DocxPageCountComputed ==
    DocxReturned =>
        call_result.page_count =
            Max2(call_args.page_breaks + 1, ContentLines \div 50 + 1)

\* ------------------------------------ long tables are cross-page tables
\* C28: with cross-page checking enabled and long_table_threshold >= 2, an
\* inventory for which long_table is derived also gets cross_page_table,
\* whether the length comes from consecutive table pages or from the row
\* estimate of one table.
C28_LongImpliesCrossPage ==
    (RuleStageDone /\ check_cross_page /\ long_table_threshold >= 2) =>
        /\ rule_features.long_table => rule_features.cross_page_table
        /\ features.long_table => features.cross_page_table

\* C28 witness: a long table by the row estimate alone, all tables on one
\* page and the threshold reached by 150 rows.
C28_Witness ==
    /\ RuleStageDone
    /\ long_table_threshold = 3
    /\ Cardinality(TablePageSet) = 1
    /\ RowMax = 150
    /\ rule_features.long_table
    /\ rule_features.cross_page_table

\* ------------------------------------- the layout the classifier decides
RuleLayoutNow == classify_by_rules(text, elements, features)
ClassifierAsked == file_type = "pdf" /\ lc_llm_outcome # "not called"

C30_ContradictingLabel ==
    /\ LayoutDone
    /\ lc_llm_outcome = "returned"
    /\ lc_llm_label = "single"
    /\ RuleLayoutNow = "double"
    /\ Annotation.layout = "single"

\* --------------------------- elements synthesized from the parser metadata
SynthesizedFromMetadata == fe_pc # "waiting" /\ has_metadata_info(metadata)
AllElements ==
    elements.images \o elements.tables \o elements.formulas \o elements.charts

ParserReturned == call_pc = "returned"
Parsed == ParserReturned /\ call_result.success

\* C21: every DocContent of a successful parse has page_count >= 1, for
\* every supported format, documents with zero pages, slides or lines
\* included.
C21_PageCountAtLeastOne == Parsed => call_result.data.page_count >= 1

\* What the parsers compute: Word, HTML and text documents have at least
\* one page; a PDF, a workbook and a presentation have as many pages as
\* the library lists pages, worksheets or slides, which may be none.
C21_PageCountComputed ==
    Parsed =>
        IF call_result.invoked \in {"_parse_pdf", "_parse_excel", "_parse_pptx"}
        THEN call_result.data.page_count = call_args.units
        ELSE call_result.data.page_count >= 1

\* a presentation without slides has been parsed
C21_EmptyPresentationParsed ==
    /\ Parsed
    /\ call_result.invoked = "_parse_pptx"
    /\ call_args.units = 0
    /\ call_result.data.page_count = 0

Recognized == lower(call_args.ext) \in DOMAIN EXT_TO_FILE_TYPE

\* C22: process on an existing file whose extension is not recognized
\* fails with an unsupported-format error and calls no format parser.
C22_UnrecognizedExtensionFails ==
    (ParserReturned /\ call_args.exists /\ ~Recognized) =>
        /\ ~call_result.success
        /\ call_result.invoked = None

\* What process does with such a file: it is read as plain text, and the
\* result is a success of type txt unless reading fails.
C22_UnrecognizedParsedAsText ==
    (ParserReturned /\ call_args.exists /\ ~Recognized) =>
        /\ call_result.invoked = "_parse_text"
        /\ call_result.success = (call_args.fault = "none")
        /\ call_result.success => call_result.data.file_type = "txt"

\* C23: process on a path that does not exist returns a failure, with an
\* error naming the path and without data, and calls no format parser,
\* whatever the extension is.
C23_MissingFileFails ==
    (ParserReturned /\ ~call_args.exists) =>
        /\ ~call_result.raised
        /\ ~call_result.success
        /\ call_result.data = None
        /\ Len(call_result.errors) = 1
        /\ call_result.errors[1].message = "file does not exist"
        /\ call_result.errors[1].path = call_args.stem
        /\ call_result.errors[1].ext = call_args.ext
        /\ call_result.invoked = None

\* C23 witness: a missing path with the extension of a supported format,
\* under a library that would have failed.
C23_Witness ==
    /\ ParserReturned
    /\ ~call_args.exists
    /\ call_args.ext = ".pptx"
    /\ call_args.fault = "ImportError"
    /\ ~call_result.success

\* C24: a fault raised by a format parser, a missing library included,
\* never leaves process: the result is a failure without DocContent whose
\* error message holds the path of the file.
C24_ParserFaultReturned ==
    (ParserReturned /\ call_args.exists /\ call_args.fault # "none") =>
        /\ ~call_result.raised
        /\ ~call_result.success
        /\ call_result.data = None
        /\ call_result.invoked # None
        /\ Len(call_result.errors) = 1
        /\ call_result.errors[1].message = "error while parsing"
        /\ call_result.errors[1].path = pure_path(call_args.stem)
        /\ call_result.errors[1].ext = call_args.ext
        /\ call_result.errors[1].cause = call_args.fault

\* C24 witness: the Word library is missing.
C24_Witness ==
    /\ ParserReturned
    /\ call_args.exists
    /\ call_args.ext = ".docx"
    /\ call_args.fault = "ImportError"
    /\ call_result.invoked = "_parse_docx"
    /\ ~call_result.success

\* ------------------------------------------- what the later stages leave
Parsed_DocContent == <<file_type, page_count, text, metadata>>

\* C26: once the Document Parser has built the DocContent no later stage
\* modifies it: ElementDetector, FeatureExtractor (its classifier step
\* included) and LayoutClassifier leave every field unchanged, and
\* FeatureExtractor and LayoutClassifier leave the ElementList unchanged.
C26_LaterStagesLeaveDocContent ==
    [][/\ sv_pc # "parse" => UNCHANGED Parsed_DocContent
       /\ fe_pc # "waiting" => UNCHANGED elements]_vars

\* C26 witness: all four stages have run on a parsed PDF with tables, the
\* classifier having answered in both stages.
C26_Witness ==
    /\ sv_pc = "done"
    /\ page_count >= 1
    /\ elements.tables # <<>>
    /\ llm_outcome = "returned"
    /\ lc_llm_outcome = "returned"

\* --------------------------------------------------- claims on the batch
BatchReturned == batch_pc = "returned"

\* one result per input, in input order, each what execute returns for
\* that input on its own
OneResultPerInput ==
    /\ Len(batch_results) = Len(batch_inputs)
    /\ \A k \in 1 .. Len(batch_inputs) :
          batch_results[k] = execute(batch_inputs[k], 0)

\* C25: execute_batch returns exactly one result per input, in input
\* order, the result at position k being what execute returns for input k
\* alone; a failure for one input changes neither the results of the
\* others nor whether they are processed; and no state written while one
\* input is processed is read while another is processed.
C25_BatchIndependent ==
    BatchReturned => (OneResultPerInput /\ stderr_flows = {})

\* What the batch guarantees: the results are independent, and the one
\* state that passes from an input to a later one is sys.stderr, left
\* replaced by an unreadable PDF and read when a later PDF is parsed.
C25_ResultsIndependent ==
    /\ BatchReturned => OneResultPerInput
    /\ \A f \in stderr_flows :
          /\ f[1] < f[2]
          /\ batch_inputs[f[1]].kind = "unreadable pdf"
          /\ enters_parse_pdf(batch_inputs[f[2]])

\* an unreadable PDF came first, a readable one after it
C25_FailureThenPdf ==
    /\ BatchReturned
    /\ Len(batch_inputs) = 2
    /\ batch_inputs[1].kind = "unreadable pdf"
    /\ batch_inputs[2].kind = "pdf"
    /\ ~batch_results[1].success /\ batch_results[2].success
    /\ stderr_flows = {<<1, 2>>}

\* ------------------------------------------------ claims on the batch run
RunReturned == run_pc = "returned"
EntriesFor(file) == {k \in 1 .. Len(failed_files) : failed_files[k].file = file}
RecordsOf(file) == {r \in output_dir : r.source = file}

\* C27: in a batch run every collected file is processed exactly once,
\* whatever failed before it; a file whose annotation fails gets no
\* persisted annotation record and exactly one entry (path and error) in
\* the failure list, a file that succeeds gets no entry, and at the end
\* success + failed = processed = number of collected files.
C27_BatchRunAccounting ==
    /\ Len(processed_log) = stats.processed
    /\ stats.processed <= Len(files)
    /\ \A k \in 1 .. Len(processed_log) :
          LET file == processed_log[k].file
              fate == processed_log[k].fate
          IN /\ file = files[k]
             /\ \A j \in 1 .. Len(processed_log) :
                   processed_log[j].file = file => j = k
             /\ fate = "annotated" => EntriesFor(file) = {}
             /\ fate # "annotated" =>
                   /\ Cardinality(EntriesFor(file)) = 1
                   /\ \A e \in EntriesFor(file) : failed_files[e].error = fate
                   /\ \A r \in RecordsOf(file) : ~r.complete
             /\ fate = "annotate raises" => RecordsOf(file) = {}
    /\ stats.success + stats.failed = stats.processed
    /\ RunReturned =>
          /\ stats.processed = Len(files)
          /\ failure_report = [written |-> failed_files # <<>>,
                                entries |-> failed_files]

\* C27 witness: three files collected, the first fails in annotate, the
\* other two are processed all the same, one of them with success.
C27_Witness ==
    /\ RunReturned
    /\ Len(files) = 3
    /\ processed_log[1].fate = "annotate raises"
    /\ processed_log[2].fate = "annotated"
    /\ stats.success = 1 /\ stats.failed = 2 /\ stats.processed = 3
    /\ Len(failed_files) = 2
====
